---- MODULE Spec2Model ----
(***************************************************************************)
(* Arctic Tracker CITES reconciliation pipeline: the staging table, the    *)
(* validation gate (StagingDataValidator, StagingValidator) and the merge  *)
(* into production (CitesMigrator), as a state machine.                    *)
(*                                                                         *)
(* The scripts are command line programs started one at a time by an       *)
(* operator; `script` says which one is running.  The two tables live in   *)
(* the store and outlive every script.                                     *)
(***************************************************************************)
EXTENDS Integers, Sequences, FiniteSets, TLC

(***************************************************************************)
(* Bounds of the model.                                                    *)
(***************************************************************************)
\* longest staging table explored
MaxStaging == 3
\* number of merge runs (execute_final_migration.py) the operator starts
MaxRuns == 2
\* longest extracted CSV explored
MaxInput == 4
\* rows of the largest production table the full reload starts from
ManyRows == 11
\* number of loader runs (load_to_staging.py, resume_staging_load.py,
\* load_optimized_trade_data.py) the operator starts
MaxLoads == 2
\* source files in the trade directory
MaxFiles == 3
\* rows in the source file of the optimizer runs
MaxRecords == 3
\* extraction scripts started
MaxExtractions == 2
\* optimizer runs started
MaxOptRuns == 2
\* hash seeds a Python process can start with
MaxSeed == 3
\* rows in the longest source file of the extractors
MaxFileRows == 6

(***************************************************************************)
(* Program constants.  The row limits of the source are scaled down so     *)
(* that a table of MaxStaging rows spans more than one batch / page; the   *)
(* code only ever compares them with row positions.                        *)
(***************************************************************************)
\* execute_final_migration.py:168  batch_size = 1000 (scaled)
InsertBatchSize == 2
\* execute_final_migration.py:144  batch_size = 10000 (scaled)
FetchBatchSize == 2
\* validate_staging_data.py:187 and :200  .limit(1000) (scaled)
FieldLimit == 2
\* validate_staging.py:56  expected_count = 489148 (scaled)
ExpectedCount == 3
\* validate_staging_data.py:146  year.lt.1975
MinYear == 1975
\* validate_staging_data.py:146  year.gt.2024
MaxYear == 2024
\* validate_staging.py:202  .gte('year', 2020)
RecentYear == 2020
\* validate_staging.py:208  recent_count < 10000 (scaled)
RecentMin == 1

\* load_to_staging.py:41  batch_size = 5000 (scaled)
LoadBatchSize == 2
\* resume_staging_load.py:60  batch_size = 1000 (scaled)
ResumeBatchSize == 2
\* resume_staging_load.py:66  target_count = 489148 (scaled)
TargetCount == 3
\* load_optimized_trade_data.py:172  chunk_size = 10000 (scaled)
BackupChunkSize == 2

NULL == "NULL"
\* the NULL of the integer column year
NullYear == 0
None == "None"

(***************************************************************************)
(* Rows.  A staging row carries the columns prepare_staging_records        *)
(* writes and the id the store gives it; quantity stands for the columns   *)
(* outside the natural key.                                                *)
(***************************************************************************)
Row(sp, yr, app, tax, imp, exp, trm, pur, src, qty) ==
    [id |-> "staging", species_id |-> sp, year |-> yr, appendix |-> app, taxon |-> tax,
     importer |-> imp, exporter |-> exp, term |-> trm, purpose |-> pur,
     source |-> src, quantity |-> qty, record_id |-> NULL,
     data_source |-> "CITES v2025.1"]

\* ids of the rows of the species registry table
species == {"sp1", "sp2"}

\* a well-formed row
rowA == Row("sp1", 2023, "I",  "Ursus maritimus",   "US", "CA", "skins", "T", "W", 1)
\* the natural key of rowA with another quantity
rowA2 == Row("sp1", 2023, "I",  "Ursus maritimus",   "US", "CA", "skins", "T", "W", 2)
\* a second well-formed row
rowB == Row("sp2", 2024, "II", "Monodon monoceros", "DK", "GL", "tusks", "P", "C", 1)
\* appendix outside the fixed set
rowZ == Row("sp1", 2022, "Z",  "Ursus maritimus",   "US", "CA", "skins", "T", "W", 1)
\* purpose outside the fixed set
rowP == Row("sp2", 2021, "II", "Monodon monoceros", "DK", "GL", "tusks", "A", "W", 1)
\* source outside the fixed set
rowS == Row("sp2", 2020, "II", "Monodon monoceros", "DK", "GL", "tusks", "T", "K", 1)

RowUniverse == {rowA, rowA2, rowB, rowZ, rowP, rowS}

SeqsUpTo(S, n) == UNION {[1..k -> S] : k \in 0..n}

Min(a, b) == IF a < b THEN a ELSE b

Coalesce(v) == IF v = NULL THEN "" ELSE v

\* the composite natural key, as the NOT EXISTS clause of migration_sql states it
NaturalKey(r) ==
    <<r.species_id, r.year, Coalesce(r.appendix), r.taxon, Coalesce(r.importer),
      Coalesce(r.exporter), Coalesce(r.term), Coalesce(r.purpose), Coalesce(r.source)>>

Keys(table) == {NaturalKey(table[k]) : k \in 1..Len(table)}

\* no two rows of the table share a natural key
UniqueKeys(table) ==
    \A a, b \in 1..Len(table) : NaturalKey(table[a]) = NaturalKey(table[b]) => a = b

VARIABLES
    staging,            \* table cites_trade_records_staging, in store order
    production,         \* table cites_trade_records, in store order
    uniqueConstraint,   \* whether the store has a unique constraint on the natural key
    script,             \* the script the operator is running
    pc,                 \* position inside the running script
    dry_run,            \* CitesMigrator.dry_run
    migration_stats,    \* CitesMigrator.migration_stats
    staging_records,    \* execute_migration: the fetched staging rows
    i,                  \* execute_migration: offset of the next insert batch
    inserted,           \* execute_migration: rows counted as inserted
    errors,             \* execute_migration: rows counted as skipped
    lastError,          \* execute_migration: outcome of the latest insert call
    faults,             \* insert calls that failed, not as duplicates and not for
                        \* a record of the batch, in this merge run or since the
                        \* latest start of load_to_staging.py
    exit_code,          \* exit status of the last finished merge script
    runs,               \* merge scripts started so far
    prodBefore,         \* production when the running merge script started
    prevRun,            \* the previous finished merge script: the staging it saw,
                        \* whether execute_migration returned True, whether main
                        \* ended in success, production before and after
    validation_results, \* StagingDataValidator.validation_results
    all_passed,         \* StagingValidator.run_all_validations: all_passed
    sv_results,         \* StagingValidator.validation_results
    gate_exit,          \* exit status of the last finished gate script
    gate_staging,       \* the staging contents that gate run judged
    gate_report,        \* the report file the latest gate run has written
    csv,                \* extracted_data/arctic_species_trade_data_v2025.csv
    df,                 \* load_to_staging.py main: the data frame
    load_stats,         \* CitesStageLoader.load_stats
    successful_inserts, \* load_to_staging: rows counted as inserted
    failed_inserts,     \* load_to_staging: rows counted as failed
    load_report,        \* the report files generate_load_report has written
    loadedFrom,         \* staging rows written by the loader scripts since the
                        \* last clear, and the csv position each came from
    current_count,      \* load_remaining_records: current_count
    loaded,             \* load_remaining_records: loaded
    load_exit,          \* exit status of the last finished loader script
    loads,              \* loader scripts started so far
    backup,             \* load_optimized_trade_data.py: args.backup
    backup_file,        \* the backup files backup_existing_data has written
    stats,              \* TradeDataLoader.stats
    file,               \* load_all_data: index of the next optimized file
    reload_exit,        \* exit status of the last finished full reload
    trade_dir,          \* the source files trade_db_NN.csv, in the order of their names
    species_data,       \* extract_all_trade_data: species_data
    extract_stats,      \* SpeciesTradeExtractor.stats
    individual_species, \* the files <species>_trade_data.json, by species
    extraction_summary_report, \* extraction_summary_report.json
    extracted_data,     \* extracted_data/arctic_trade_NN.csv, by file number
    arctic_results,     \* extract_all_arctic_data: results of the files done
    arctic_stats,       \* ArcticTradeDataExtractor.stats
    combined,           \* extracted_data/arctic_species_trade_data_v2025.csv
    next_file,          \* index of the next source file of the running extractor
    extract_exit,       \* exit status of the last finished extraction script
    extractions,        \* extraction scripts started so far
    optimized_species,  \* the files <species>_trade_data_optimized.json, as
                        \* json.load reads them, by species
    denormalized,       \* what get_denormalized_records returned last
    first_run,          \* the input and output directory of the optimizer as
                        \* its first run left them
    opt_runs            \* optimizer runs started so far

mergeVars == <<script, pc, dry_run, migration_stats, staging_records, i, inserted,
               errors, lastError, faults, exit_code, runs, prodBefore, prevRun>>

gateVars == <<validation_results, all_passed, sv_results, gate_exit, gate_staging,
              gate_report>>

loadVars == <<csv, df, load_stats, successful_inserts, failed_inserts, load_report,
              loadedFrom, current_count, loaded, load_exit, loads>>

reloadVars == <<backup, backup_file, stats, file, reload_exit>>

extractVars == <<trade_dir, species_data, extract_stats, individual_species,
                 extraction_summary_report, extracted_data, arctic_results, arctic_stats,
                 combined, next_file, extract_exit, extractions>>

optVars == <<optimized_species, denormalized, first_run, opt_runs>>

toolVars == <<extractVars, optVars>>

vars == <<staging, production, uniqueConstraint, mergeVars, gateVars, loadVars,
          reloadVars, toolVars>>

(***************************************************************************)
(* The store.                                                              *)
(***************************************************************************)
\* .select('*').range(offset, offset + batch_size - 1) on a table
SelectRange(table, offset, size) ==
    SubSeq(table, offset + 1, Min(offset + size, Len(table)))

\* the paginated fetch loop of execute_migration
RECURSIVE FetchAll(_, _)
FetchAll(table, offset) ==
    LET data == SelectRange(table, offset, FetchBatchSize)
    IN IF data = <<>> THEN <<>>
       ELSE data \o FetchAll(table, offset + FetchBatchSize)

\* a batch collides when one of its keys is in the table or twice in the batch
Collides(table, rows) ==
    \/ \E k \in 1..Len(rows) : NaturalKey(rows[k]) \in Keys(table)
    \/ ~UniqueKeys(rows)

\* .insert(rows).execute(): one statement, so it inserts all rows or none.
\* fault: the call fails for a reason other than a duplicate.
StoreInsert(table, rows, fault) ==
    IF fault THEN [table |-> table, error |-> "other"]
    ELSE IF uniqueConstraint /\ Collides(table, rows)
         THEN [table |-> table, error |-> "duplicate key value"]
         ELSE [table |-> table \o rows, error |-> "none"]

(***************************************************************************)
(* CitesMigrator (execute_final_migration.py).                             *)
(***************************************************************************)
InitStats ==
    [initial_production_count |-> 0, initial_staging_count |-> 0,
     records_migrated |-> 0, final_production_count |-> 0, errors |-> 0]

\* remove the staging-specific fields and tag the record
CleanRecord(record) ==
    [k \in DOMAIN record \ {"id", "created_at", "updated_at"} |->
        IF k = "data_source" THEN "CITES v2025.1" ELSE record[k]]

CleanBatch(batch) == [k \in 1..Len(batch) |-> CleanRecord(batch[k])]

\* prevRun before any merge script has finished
NoRun ==
    [staging |-> <<>>, returned |-> FALSE, success |-> FALSE, dry_run |-> TRUE,
     before |-> <<>>, after |-> <<>>]

\* what the merge script leaves unchanged at every step
MergeFrame == UNCHANGED <<staging, uniqueConstraint, runs, gateVars, loadVars, reloadVars, toolVars>>

\* the process ends (sys.exit(code) or the return of main) and its
\* CitesMigrator object with it
Exit(code, success) ==
    /\ script' = "none"
    /\ pc' = "idle"
    /\ exit_code' = code
    /\ prevRun' = [staging |-> staging, returned |-> (pc = "post"),
                   success |-> success, dry_run |-> dry_run,
                   before |-> prodBefore, after |-> production]
    /\ dry_run' = FALSE
    /\ migration_stats' = InitStats
    /\ staging_records' = <<>>
    /\ i' = 0 /\ inserted' = 0 /\ errors' = 0
    /\ lastError' = "none"
    /\ faults' = 0
    /\ prodBefore' = <<>>

\* the operator starts execute_final_migration.py [--dry-run]
main_start ==
    /\ script = "none"
    /\ runs < MaxRuns
    /\ \E d \in BOOLEAN : dry_run' = d
    /\ script' = "migrate"
    /\ pc' = "pre_checks"
    /\ migration_stats' = InitStats
    /\ staging_records' = <<>>
    /\ i' = 0 /\ inserted' = 0 /\ errors' = 0
    /\ lastError' = "none"
    /\ faults' = 0
    /\ runs' = runs + 1
    /\ prodBefore' = production
    /\ UNCHANGED <<staging, production, uniqueConstraint, exit_code, prevRun, gateVars,
                   loadVars, reloadVars, toolVars>>

pre_migration_checks ==
    /\ script = "migrate" /\ pc = "pre_checks"
    /\ \E raises \in BOOLEAN :
         LET staging_count == Len(staging)
             prod_count == Len(production)
             expected_new == staging_count - prod_count
         IN IF raises \/ expected_new < 0
            THEN Exit("1", FALSE)
            ELSE /\ migration_stats' = [migration_stats EXCEPT
                                          !.initial_staging_count = staging_count,
                                          !.initial_production_count = prod_count]
                 /\ pc' = "confirm"
                 /\ UNCHANGED <<script, exit_code, prevRun, dry_run, staging_records,
                                i, inserted, errors, lastError, faults, prodBefore>>
    /\ UNCHANGED production
    /\ MergeFrame

\* "Proceed with migration? [y/N]", asked unless --dry-run
main_confirm ==
    /\ script = "migrate" /\ pc = "confirm"
    /\ \E yes \in BOOLEAN :
         IF dry_run \/ yes
         THEN /\ pc' = "execute"
              /\ UNCHANGED <<script, exit_code, prevRun, dry_run, migration_stats,
                             staging_records, i, inserted, errors, lastError, faults,
                             prodBefore>>
         ELSE Exit("0", FALSE)
    /\ UNCHANGED production
    /\ MergeFrame

\* execute_migration up to the insert loop: the dry-run return, the fetch
\* of the staging rows, or a failure of the fetch (outer except)
execute_migration_fetch ==
    /\ script = "migrate" /\ pc = "execute"
    /\ IF dry_run
       THEN /\ pc' = "post"
            /\ UNCHANGED <<script, exit_code, prevRun, dry_run, migration_stats,
                           staging_records, i, inserted, errors, lastError, faults,
                           prodBefore>>
       ELSE \E raises \in BOOLEAN :
              IF raises
              THEN Exit("1", FALSE)
              ELSE /\ staging_records' = FetchAll(staging, 0)
                   /\ i' = 0 /\ inserted' = 0 /\ errors' = 0
                   /\ pc' = "inserting"
                   /\ UNCHANGED <<script, exit_code, prevRun, dry_run, migration_stats,
                                  lastError, faults, prodBefore>>
    /\ UNCHANGED production
    /\ MergeFrame

\* one iteration of the insert loop
execute_migration_insert ==
    /\ script = "migrate" /\ pc = "inserting"
    /\ i < Len(staging_records)
    /\ LET batch == SubSeq(staging_records, i + 1,
                           Min(i + InsertBatchSize, Len(staging_records)))
           clean_batch == CleanBatch(batch)
       IN \E fault \in BOOLEAN :
            LET result == StoreInsert(production, clean_batch, fault)
            IN /\ production' = result.table
               /\ lastError' = result.error
               /\ faults' = IF result.error = "other" THEN faults + 1 ELSE faults
               /\ IF result.error = "none"
                  THEN /\ inserted' = inserted + Len(clean_batch)
                       /\ errors' = errors
                  ELSE /\ errors' = errors + Len(batch)
                       /\ inserted' = inserted
    /\ i' = i + InsertBatchSize
    /\ UNCHANGED <<script, pc, dry_run, migration_stats, staging_records, exit_code,
                   prodBefore, prevRun>>
    /\ MergeFrame

\* the end of the insert loop: execute_migration returns True
execute_migration_return ==
    /\ script = "migrate" /\ pc = "inserting"
    /\ i >= Len(staging_records)
    /\ migration_stats' = [migration_stats EXCEPT !.records_migrated = inserted]
    /\ pc' = "post"
    /\ UNCHANGED <<production, script, dry_run, staging_records, i, inserted, errors,
                   lastError, faults, exit_code, prodBefore, prevRun>>
    /\ MergeFrame

\* the verdict of post_migration_validation
PostVerdict(final_count, initial_count) == final_count - initial_count > 0

\* generate_migration_report: json.dump of migration_stats raises when
\* start_time and end_time hold datetime objects, which execute_migration
\* sets in every run that is not a dry run
ReportRaises(dry) == ~dry

\* the end of main: cleanup, generate_migration_report, and "Migration
\* crashed" with exit status 1 when the report raises
MainEnd == IF ReportRaises(dry_run) THEN Exit("1", FALSE) ELSE Exit("0", TRUE)

\* post_migration_validation (skipped by main under --dry-run), then the
\* end of main
post_migration_validation ==
    /\ script = "migrate" /\ pc = "post"
    /\ IF dry_run
       THEN MainEnd
       ELSE \E raises \in BOOLEAN :
              LET final_count == Len(production)
                  initial_count == migration_stats.initial_production_count
              IN IF ~raises /\ PostVerdict(final_count, initial_count)
                 THEN MainEnd
                 ELSE Exit("1", FALSE)
    /\ UNCHANGED production
    /\ MergeFrame

(***************************************************************************)
(* StagingDataValidator (scripts/validate_staging_data.py).                *)
(***************************************************************************)
NoResults == [passed |-> TRUE, checks |-> <<>>]

\* no report file of the latest gate run
NoReport == [script |-> "none"]

\* log_check with the verdict overwritten by the latest check
log_check_overwrite(results, check_name, passed) ==
    [passed |-> passed,
     checks |-> Append(results.checks, [name |-> check_name, passed |-> passed])]

\* log_check: append the check, and clear the verdict when it did not pass
log_check(results, check_name, passed) ==
    [passed |-> IF ~passed THEN FALSE ELSE results.passed,
     checks |-> Append(results.checks, [name |-> check_name, passed |-> passed])]

\* .select(column).limit(n): the first n rows in store order
SelectLimit(table, n) == SubSeq(table, 1, Min(n, Len(table)))

Column(table, col) == [k \in 1..Len(table) |-> table[k][col]]

Range(f) == {f[k] : k \in DOMAIN f}

\* Python truthiness of a column value (r.get(col))
Truthy(v) == v # NULL /\ v # ""

valid_appendix == {"I", "II", "III", "I/II", "II/NC", "III/NC"}
valid_purposes == {"T", "Z", "S", "P", "B", "E", "G", "Q", "L", "M", "N"}
valid_sources == {"W", "C", "D", "F", "R", "I", "O", "X", "Y", "U"}

\* rows the filter .not_('appendix', 'in', valid_appendix) returns (NULL never matches)
InvalidAppendixRows(table) ==
    {k \in 1..Len(table) : table[k].appendix # NULL /\ table[k].appendix \notin valid_appendix}

\* the values of col among the first FieldLimit rows that are outside valid
InvalidLimited(table, col, valid) ==
    {v \in Range(Column(SelectLimit(table, FieldLimit), col)) : Truthy(v) /\ v \notin valid}

\* the list `errors` of validate_field_values is empty
FieldValuesOK(table) ==
    /\ InvalidAppendixRows(table) = {}
    /\ InvalidLimited(table, "purpose", valid_purposes) = {}
    /\ InvalidLimited(table, "source", valid_sources) = {}

\* the operator starts validate_staging_data.py
validate_all_start ==
    /\ script = "none"
    /\ script' = "validate_staging_data"
    /\ pc' = "validate_record_count"
    /\ validation_results' = NoResults
    /\ gate_report' = NoReport
    /\ UNCHANGED <<staging, production, uniqueConstraint, dry_run, migration_stats,
                   staging_records, i, inserted, errors, lastError, faults, exit_code, runs,
                   prodBefore, prevRun, loadVars, reloadVars, toolVars, all_passed, sv_results, gate_exit, gate_staging>>

\* what a check of validate_all leaves unchanged
GateFrame ==
    UNCHANGED <<staging, production, uniqueConstraint, script, dry_run, migration_stats,
                staging_records, i, inserted, errors, lastError, faults, exit_code, runs,
                prodBefore, prevRun, loadVars, reloadVars, toolVars, all_passed, sv_results, gate_exit,
                gate_staging, gate_report>>

\* staging_count == expected_count
RecordCountMatches(staging_count, expected_count) == staging_count = expected_count

\* expected_count: the --expected-count argument or the sum of the summary file;
\* known is false when neither is there
validate_record_count ==
    /\ script = "validate_staging_data" /\ pc = "validate_record_count"
    /\ \E raises \in BOOLEAN, known \in BOOLEAN, expected_count \in 0..MaxStaging :
         LET staging_count == Len(staging)
             passed == ~raises /\ known /\ RecordCountMatches(staging_count, expected_count)
         IN validation_results' = log_check(validation_results, "Record Count", passed)
    /\ pc' = "validate_species_mapping"
    /\ GateFrame

validate_species_mapping ==
    /\ script = "validate_staging_data" /\ pc = "validate_species_mapping"
    /\ \E raises \in BOOLEAN :
         LET staging_species_ids == {v \in Range(Column(staging, "species_id")) : Truthy(v)}
             invalid_ids == staging_species_ids \ species
             passed == ~raises /\ invalid_ids = {}
         IN validation_results' = log_check(validation_results, "Species Mapping", passed)
    /\ pc' = "validate_data_integrity"
    /\ GateFrame

\* len(record_ids) - len(set(record_ids)) over the non-empty record_id values
DuplicateRecordIds(table) ==
    LET ks == {k \in 1..Len(table) : Truthy(table[k].record_id)}
    IN Cardinality(ks) - Cardinality({table[k].record_id : k \in ks})

validate_data_integrity ==
    /\ script = "validate_staging_data" /\ pc = "validate_data_integrity"
    /\ \E raises \in BOOLEAN :
         LET duplicate_count == DuplicateRecordIds(staging)
             null_species == {k \in 1..Len(staging) : staging[k].species_id = NULL}
             bad_year == {k \in 1..Len(staging) :
                            /\ staging[k].year # NullYear
                            /\ staging[k].year < MinYear \/ staging[k].year > MaxYear}
             passed == /\ ~raises
                       /\ duplicate_count = 0
                       /\ null_species = {}
                       /\ bad_year = {}
         IN validation_results' = log_check(validation_results, "Data Integrity", passed)
    /\ pc' = "validate_field_values"
    /\ GateFrame

validate_field_values ==
    /\ script = "validate_staging_data" /\ pc = "validate_field_values"
    /\ \E raises \in BOOLEAN :
         LET passed == ~raises /\ FieldValuesOK(staging)
         IN validation_results' = log_check(validation_results, "Field Values", passed)
    /\ pc' = "validate_relationships"
    /\ GateFrame

\* the rpc validate_staging_species_ids, or the manual check when the rpc fails
validate_relationships ==
    /\ script = "validate_staging_data" /\ pc = "validate_relationships"
    /\ \E rpc \in BOOLEAN, raises \in BOOLEAN :
         LET invalid_count == Cardinality({k \in 1..Len(staging) :
                                             staging[k].species_id \notin species})
             staging_ids == Range(Column(staging, "species_id"))
             invalid == staging_ids \ species
             passed == IF rpc THEN invalid_count = 0
                       ELSE ~raises /\ invalid = {}
         IN validation_results' = log_check(validation_results, "Foreign Keys", passed)
    /\ pc' = "validate_performance"
    /\ GateFrame

\* slow: some test query took more than 2.0 seconds or failed
validate_performance ==
    /\ script = "validate_staging_data" /\ pc = "validate_performance"
    /\ \E slow \in BOOLEAN :
         validation_results' = log_check(validation_results, "Query Performance", ~slow)
    /\ pc' = "save_validation_report"
    /\ GateFrame

\* save_validation_report with the report written only for a passed verdict
save_validation_report_if_passed(results) ==
    IF results.passed
    THEN [script |-> "validate_staging_data", passed |-> results.passed,
          checks |-> [k \in DOMAIN results.checks |-> results.checks[k].name]]
    ELSE NoReport

\* save_validation_report: the file json.dump writes, reduced to the verdict
\* and the names of the checks it lists
save_validation_report(results) ==
    [script |-> "validate_staging_data", passed |-> results.passed,
     checks |-> [k \in DOMAIN results.checks |-> results.checks[k].name]]

\* save_validation_report, the return of validate_all and sys.exit, which
\* ends the process and its StagingDataValidator object
validate_all_return ==
    /\ script = "validate_staging_data" /\ pc = "save_validation_report"
    /\ gate_report' = save_validation_report(validation_results)
    /\ gate_exit' = IF validation_results.passed THEN "0" ELSE "1"
    /\ gate_staging' = staging
    /\ script' = "none"
    /\ pc' = "idle"
    /\ validation_results' = NoResults
    /\ UNCHANGED <<staging, production, uniqueConstraint, dry_run, migration_stats,
                   staging_records, i, inserted, errors, lastError, faults, exit_code, runs,
                   prodBefore, prevRun, loadVars, reloadVars, toolVars, all_passed, sv_results>>

(***************************************************************************)
(* StagingValidator (validate_staging.py).                                 *)
(***************************************************************************)
InitResults ==
    [overall_status |-> "PENDING", checks_passed |-> 0, checks_failed |-> 0,
     critical_issues |-> 0, warnings |-> 0]

\* a check that returns True, having appended w warnings
CheckPassed(results, w) ==
    [results EXCEPT !.checks_passed = @ + 1, !.warnings = @ + w]

\* a check that returns False, having appended w warnings and one critical issue
CheckFailed(results, w) ==
    [results EXCEPT !.checks_failed = @ + 1, !.critical_issues = @ + 1,
                    !.warnings = @ + w]

\* the operator starts validate_staging.py
run_all_validations_start ==
    /\ script = "none"
    /\ script' = "validate_staging"
    /\ pc' = "check_record_count"
    /\ all_passed' = TRUE
    /\ sv_results' = InitResults
    /\ gate_report' = NoReport
    /\ UNCHANGED <<staging, production, uniqueConstraint, dry_run, migration_stats,
                   staging_records, i, inserted, errors, lastError, faults, exit_code, runs,
                   prodBefore, prevRun, loadVars, reloadVars, toolVars, validation_results, gate_exit, gate_staging>>

\* what a check of run_all_validations leaves unchanged
ValidatorFrame ==
    UNCHANGED <<staging, production, uniqueConstraint, script, dry_run, migration_stats,
                staging_records, i, inserted, errors, lastError, faults, exit_code, runs,
                prodBefore, prevRun, loadVars, reloadVars, toolVars, validation_results, gate_exit, gate_staging>>

\* one turn of the loop of run_all_validations: the check returned `result`
\* and left `results` behind
LoopStep(result, results, next) ==
    /\ all_passed' = IF ~result THEN FALSE ELSE all_passed
    /\ sv_results' = results
    /\ pc' = next
    /\ UNCHANGED gate_report

\* missing > expected_count * 0.1
TooManyMissing(missing, expected_count) == 10 * missing > expected_count

\* the branches of check_record_count: what it returns and how many
\* warnings it appends
RecordCountOutcome(staging_count, expected_count) ==
    LET missing == expected_count - staging_count
    IN IF staging_count = expected_count
       THEN [result |-> TRUE, warnings |-> 0]
       ELSE IF staging_count < expected_count
       THEN IF TooManyMissing(missing, expected_count)
            THEN [result |-> FALSE, warnings |-> 1]
            ELSE [result |-> TRUE, warnings |-> 1]
       ELSE [result |-> TRUE, warnings |-> 1]

\* check_record_count without its own except: the exception reaches the
\* except of the loop of run_all_validations, which only clears all_passed
check_record_count_uncaught ==
    /\ script = "validate_staging" /\ pc = "check_record_count"
    /\ \E raises \in BOOLEAN :
         LET staging_count == Len(staging)
             expected_count == ExpectedCount
             outcome == RecordCountOutcome(staging_count, expected_count)
         IN IF raises
            THEN LoopStep(FALSE, sv_results, "check_data_quality")
            ELSE IF outcome.result
            THEN LoopStep(TRUE, CheckPassed(sv_results, outcome.warnings),
                          "check_data_quality")
            ELSE LoopStep(FALSE, CheckFailed(sv_results, outcome.warnings),
                          "check_data_quality")
    /\ ValidatorFrame

check_record_count ==
    /\ script = "validate_staging" /\ pc = "check_record_count"
    /\ \E raises \in BOOLEAN :
         LET staging_count == Len(staging)
             expected_count == ExpectedCount
             outcome == RecordCountOutcome(staging_count, expected_count)
         IN IF raises
            THEN LoopStep(FALSE, CheckFailed(sv_results, 0), "check_data_quality")
            ELSE IF outcome.result
            THEN LoopStep(TRUE, CheckPassed(sv_results, outcome.warnings),
                          "check_data_quality")
            ELSE LoopStep(FALSE, CheckFailed(sv_results, outcome.warnings),
                          "check_data_quality")
    /\ ValidatorFrame

\* the view cites_staging_summary is empty or the query raises, or it has
\* a row in which `issues` of the three plausibility tests fail; the loop
\* over issues extends warnings by the whole list once per issue
check_data_quality ==
    /\ script = "validate_staging" /\ pc = "check_data_quality"
    /\ \E fails \in BOOLEAN, issues \in 0..3 :
         IF fails
         THEN LoopStep(FALSE, CheckFailed(sv_results, 0), "check_species_mapping")
         ELSE LoopStep(TRUE, CheckPassed(sv_results, issues * issues),
                       "check_species_mapping")
    /\ ValidatorFrame

check_species_mapping ==
    /\ script = "validate_staging" /\ pc = "check_species_mapping"
    /\ \E raises \in BOOLEAN :
         LET null_species == Cardinality({k \in 1..Len(staging) :
                                            staging[k].species_id = NULL})
         IN IF raises \/ null_species > 0
            THEN LoopStep(FALSE, CheckFailed(sv_results, 0), "check_data_completeness")
            ELSE LoopStep(TRUE, CheckPassed(sv_results, 0), "check_data_completeness")
    /\ ValidatorFrame

check_data_completeness ==
    /\ script = "validate_staging" /\ pc = "check_data_completeness"
    /\ \E raises \in BOOLEAN :
         LET incomplete_records == Cardinality({k \in 1..Len(staging) :
                                     staging[k].taxon = NULL \/ staging[k].year = NullYear})
             recent_count == Cardinality({k \in 1..Len(staging) :
                                     staging[k].year # NullYear /\ staging[k].year >= RecentYear})
             w == (IF incomplete_records > 0 THEN 1 ELSE 0)
                  + (IF recent_count < RecentMin THEN 1 ELSE 0)
         IN IF raises
            THEN LoopStep(FALSE, CheckFailed(sv_results, 0), "compare_with_production")
            ELSE LoopStep(TRUE, CheckPassed(sv_results, w), "compare_with_production")
    /\ ValidatorFrame

\* new_records/prod_count divides by zero when production is empty
compare_with_production ==
    /\ script = "validate_staging" /\ pc = "compare_with_production"
    /\ \E raises \in BOOLEAN :
         LET prod_count == Len(production)
             staging_count == Len(staging)
         IN IF raises \/ (staging_count > prod_count /\ prod_count = 0)
            THEN LoopStep(FALSE, CheckFailed(sv_results, 0), "generate_validation_report")
            ELSE IF staging_count > prod_count
            THEN LoopStep(TRUE, CheckPassed(sv_results, 0), "generate_validation_report")
            ELSE LoopStep(TRUE, CheckPassed(sv_results, 1), "generate_validation_report")
    /\ ValidatorFrame

OverallStatus(results) ==
    IF results.critical_issues > 0 THEN "FAILED"
    ELSE IF results.warnings > 0 THEN "PASSED_WITH_WARNINGS"
    ELSE "PASSED"

\* the file json.dump writes, reduced to the status and the number of checks
\* of its summary
ValidationReport(results) ==
    [script |-> "validate_staging", overall_status |-> results.overall_status,
     total_checks |-> results.checks_passed + results.checks_failed]

generate_validation_report ==
    /\ script = "validate_staging" /\ pc = "generate_validation_report"
    /\ sv_results' = [sv_results EXCEPT !.overall_status = OverallStatus(sv_results)]
    /\ gate_report' = ValidationReport(sv_results')
    /\ pc' = "return"
    /\ UNCHANGED all_passed
    /\ ValidatorFrame

\* the return of run_all_validations and sys.exit(0 if success else 1), which
\* ends the process and its StagingValidator object
run_all_validations_return ==
    /\ script = "validate_staging" /\ pc = "return"
    /\ gate_exit' = IF all_passed THEN "0" ELSE "1"
    /\ gate_staging' = staging
    /\ script' = "none"
    /\ pc' = "idle"
    /\ all_passed' = TRUE
    /\ sv_results' = InitResults
    /\ UNCHANGED gate_report
    /\ UNCHANGED <<staging, production, uniqueConstraint, dry_run, migration_stats,
                   staging_records, i, inserted, errors, lastError, faults, exit_code, runs,
                   prodBefore, prevRun, loadVars, reloadVars, toolVars, validation_results>>

(***************************************************************************)
(* CitesStageLoader (load_to_staging.py).                                  *)
(***************************************************************************)
\* a row of the extracted CSV
CsvRow(tax, yr, app, imp, exp, trm, pur, src, qty) ==
    [Taxon |-> tax, Year |-> yr, Appendix |-> app, Importer |-> imp, Exporter |-> exp,
     Term |-> trm, Purpose |-> pur, Source |-> src, Quantity |-> qty]

\* the rows of the species registry table
species_table ==
    {[id |-> "sp1", scientific_name |-> "Ursus maritimus"],
     [id |-> "sp2", scientific_name |-> "Monodon monoceros"]}

\* float('inf'), which _safe_numeric lets through and JSON cannot carry
Inf == 99
\* the NaN pandas gives a taxon that Series.map does not find
NaN == "NaN"

\* extracted rows: two of registered taxa, one of an unrecognised taxon, one
\* with a quantity the store cannot take
csvA == CsvRow("Ursus maritimus", 2023, "I", "US", "CA", "skins", "T", "W", 1)
csvB == CsvRow("Monodon monoceros", 2024, "II", "DK", "GL", "tusks", "P", "", 1)
csvU == CsvRow("Ursus maritimus ssp.", 2023, "I", "US", "CA", "skins", "T", "W", 1)
csvBad == CsvRow("Monodon monoceros", 2022, "II", "DK", "GL", "tusks", "P", "C", Inf)

CsvUniverse == {csvA, csvB, csvU, csvBad}

\* self.species_mapping: scientific_name -> id
species_mapping ==
    [n \in {sp.scientific_name : sp \in species_table} |->
        (CHOOSE sp \in species_table : sp.scientific_name = n).id]

InitLoadStats ==
    [total_records |-> 0, successful_loads |-> 0, failed_loads |-> 0,
     species_mapped |-> 0, started |-> FALSE]

NoLoadReport == [written |-> FALSE]

\* pd.read_csv: the rows with their index; an empty cell reads as NaN
ReadCsv(rows) ==
    [k \in 1..Len(rows) |->
        [index |-> k, species_id |-> NULL,
         row |-> [c \in DOMAIN rows[k] |->
                    IF c \notin {"Year", "Quantity"} /\ rows[k][c] = "" THEN NaN
                    ELSE rows[k][c]]]]

\* the loop of map_species_ids: the species_id column after it
MapRow(d) ==
    IF d.row.Taxon \in DOMAIN species_mapping
    THEN [d EXCEPT !.species_id = species_mapping[d.row.Taxon]]
    ELSE d

IsMapped(d) == d.species_id # NULL

\* value if pd.notna(value) else None
NotNaOrNone(v) == IF v = NaN THEN NULL ELSE v

\* the record prepare_staging_records builds from one row of the frame
PrepareRecord(d) ==
    [species_id |-> d.species_id, year |-> d.row.Year,
     appendix |-> NotNaOrNone(d.row.Appendix), taxon |-> d.row.Taxon,
     importer |-> NotNaOrNone(d.row.Importer), exporter |-> NotNaOrNone(d.row.Exporter),
     term |-> NotNaOrNone(d.row.Term), purpose |-> NotNaOrNone(d.row.Purpose),
     source |-> NotNaOrNone(d.row.Source), quantity |-> d.row.Quantity,
     data_source |-> "CITES v2025.1"]

\* the request body of a record cannot be sent as JSON
NotJson(record) == record.species_id = NaN \/ record.quantity = Inf

\* the columns the store fills when the record does not set them
StagingDefaults(record) == [id |-> "staging", record_id |-> NULL] @@ record

\* .insert(batch).execute() on the staging table: all rows or none.
\* fault: the call fails for a reason that lies outside the batch.
StagingInsert(table, batch, fault) ==
    IF fault THEN [table |-> table, error |-> "other"]
    ELSE IF \E k \in 1..Len(batch) : NotJson(batch[k])
         THEN [table |-> table, error |-> "json"]
         ELSE [table |-> table \o [k \in 1..Len(batch) |-> StagingDefaults(batch[k])],
               error |-> "none"]

\* what the loader scripts leave unchanged at every step
LoadFrame ==
    UNCHANGED <<production, uniqueConstraint, migration_stats, inserted, errors, lastError,
                exit_code, runs, prodBefore, prevRun, gateVars, csv, reloadVars, toolVars>>

\* the loader process ends and its CitesStageLoader object with it
LoadExit(code) ==
    /\ script' = "none"
    /\ pc' = "idle"
    /\ load_exit' = code
    /\ dry_run' = FALSE
    /\ df' = <<>>
    /\ staging_records' = <<>>
    /\ load_stats' = InitLoadStats
    /\ successful_inserts' = 0 /\ failed_inserts' = 0
    /\ i' = 0
    /\ current_count' = 0 /\ loaded' = 0
    /\ UNCHANGED faults

\* what a step inside the loader leaves of the process as it is
LoadStay == UNCHANGED <<script, load_exit, dry_run>>

\* the operator starts load_to_staging.py [--dry-run]
load_to_staging_main ==
    /\ script = "none"
    /\ loads < MaxLoads
    /\ loads' = loads + 1
    /\ script' = "load_to_staging"
    /\ pc' = "load_species_mapping"
    /\ \E d \in BOOLEAN : dry_run' = d
    /\ load_stats' = InitLoadStats
    /\ load_report' = NoLoadReport
    /\ faults' = 0
    /\ UNCHANGED <<staging, loadedFrom, load_exit, df, staging_records, successful_inserts,
                   failed_inserts, i, current_count, loaded>>
    /\ LoadFrame

load_species_mapping ==
    /\ script = "load_to_staging" /\ pc = "load_species_mapping"
    /\ \E raises \in BOOLEAN :
         IF raises
         THEN LoadExit("1")
         ELSE /\ pc' = "load_extracted_data"
              /\ LoadStay
              /\ UNCHANGED <<df, staging_records, load_stats, successful_inserts,
                             failed_inserts, i, faults, current_count, loaded>>
    /\ UNCHANGED <<staging, loadedFrom, load_report, loads>>
    /\ LoadFrame

load_extracted_data ==
    /\ script = "load_to_staging" /\ pc = "load_extracted_data"
    /\ \E raises \in BOOLEAN :
         IF raises
         THEN LoadExit("1")
         ELSE /\ df' = ReadCsv(csv)
              /\ load_stats' = [load_stats EXCEPT !.total_records = Len(csv)]
              /\ pc' = "map_species_ids"
              /\ LoadStay
              /\ UNCHANGED <<staging_records, successful_inserts, failed_inserts, i,
                             faults, current_count, loaded>>
    /\ UNCHANGED <<staging, loadedFrom, load_report, loads>>
    /\ LoadFrame

\* mapped_count/len(df) divides by zero on an empty frame
map_species_ids ==
    /\ script = "load_to_staging" /\ pc = "map_species_ids"
    /\ IF Len(df) = 0
       THEN LoadExit("1")
       ELSE LET mapped == [k \in 1..Len(df) |-> MapRow(df[k])]
                mapped_count == Cardinality({k \in 1..Len(df) : IsMapped(mapped[k])})
            IN /\ df' = SelectSeq(mapped, IsMapped)
               /\ load_stats' = [load_stats EXCEPT !.species_mapped = mapped_count]
               /\ pc' = "prepare_staging_records"
               /\ LoadStay
               /\ UNCHANGED <<staging_records, successful_inserts, failed_inserts, i,
                              faults, current_count, loaded>>
    /\ UNCHANGED <<staging, loadedFrom, load_report, loads>>
    /\ LoadFrame

prepare_staging_records ==
    /\ script = "load_to_staging" /\ pc = "prepare_staging_records"
    /\ staging_records' = [k \in 1..Len(df) |-> PrepareRecord(df[k])]
    /\ pc' = "clear_staging_table"
    /\ LoadStay
    /\ UNCHANGED <<staging, loadedFrom, load_report, loads, df, load_stats,
                   successful_inserts, failed_inserts, i, faults, current_count, loaded>>
    /\ LoadFrame

\* clear_staging_table with the delete sent to cites_trade_records
clear_production_table ==
    /\ script = "load_to_staging" /\ pc = "clear_staging_table"
    /\ production' = <<>>
    /\ pc' = "load_to_staging"
    /\ LoadStay
    /\ UNCHANGED <<staging, loadedFrom, df, staging_records, load_stats, successful_inserts,
                   failed_inserts, i, faults, current_count, loaded, load_report, loads>>
    /\ UNCHANGED <<uniqueConstraint, migration_stats, inserted, errors, lastError,
                   exit_code, runs, prodBefore, prevRun, gateVars, csv, reloadVars, toolVars>>

\* .delete().neq('id', <zero uuid>) on the staging table
clear_staging_table ==
    /\ script = "load_to_staging" /\ pc = "clear_staging_table"
    /\ IF dry_run
       THEN /\ pc' = "load_to_staging"
            /\ LoadStay
            /\ UNCHANGED <<staging, loadedFrom, df, staging_records, load_stats,
                           successful_inserts, failed_inserts, i, faults, current_count,
                           loaded>>
       ELSE \E raises \in BOOLEAN :
              IF raises
              THEN /\ LoadExit("1")
                   /\ UNCHANGED <<staging, loadedFrom>>
              ELSE /\ staging' = <<>>
                   /\ loadedFrom' = <<>>
                   /\ pc' = "load_to_staging"
                   /\ LoadStay
                   /\ UNCHANGED <<df, staging_records, load_stats, successful_inserts,
                                  failed_inserts, i, faults, current_count, loaded>>
    /\ UNCHANGED <<load_report, loads>>
    /\ LoadFrame

\* load_to_staging without the test of self.dry_run
load_to_staging_ignoring_dry_run ==
    /\ script = "load_to_staging" /\ pc = "load_to_staging"
    /\ load_stats' = [load_stats EXCEPT !.started = TRUE]
    /\ successful_inserts' = 0 /\ failed_inserts' = 0
    /\ i' = 0
    /\ pc' = "inserting"
    /\ LoadStay
    /\ UNCHANGED <<staging, loadedFrom, load_report, loads, df, staging_records, faults,
                   current_count, loaded>>
    /\ LoadFrame

\* load_to_staging up to the insert loop: the dry-run return or the start
load_to_staging ==
    /\ script = "load_to_staging" /\ pc = "load_to_staging"
    /\ IF dry_run
       THEN /\ pc' = "validate_staging_load"
            /\ UNCHANGED <<load_stats, successful_inserts, failed_inserts, i>>
       ELSE /\ load_stats' = [load_stats EXCEPT !.started = TRUE]
            /\ successful_inserts' = 0 /\ failed_inserts' = 0
            /\ i' = 0
            /\ pc' = "inserting"
    /\ LoadStay
    /\ UNCHANGED <<staging, loadedFrom, load_report, loads, df, staging_records, faults,
                   current_count, loaded>>
    /\ LoadFrame

\* one iteration of the insert loop of load_to_staging
load_to_staging_insert ==
    /\ script = "load_to_staging" /\ pc = "inserting"
    /\ i < Len(staging_records)
    /\ LET last == Min(i + LoadBatchSize, Len(staging_records))
           batch == SubSeq(staging_records, i + 1, last)
       IN \E fault \in BOOLEAN :
            LET result == StagingInsert(staging, batch, fault)
            IN /\ staging' = result.table
               /\ faults' = IF result.error = "other" THEN faults + 1 ELSE faults
               /\ IF result.error = "none"
                  THEN /\ successful_inserts' = successful_inserts + Len(batch)
                       /\ failed_inserts' = failed_inserts
                       /\ loadedFrom' = loadedFrom \o [k \in 1..Len(batch) |-> df[i + k].index]
                  ELSE /\ failed_inserts' = failed_inserts + Len(batch)
                       /\ successful_inserts' = successful_inserts
                       /\ loadedFrom' = loadedFrom
    /\ i' = i + LoadBatchSize
    /\ LoadStay
    /\ UNCHANGED <<pc, load_report, loads, df, staging_records, load_stats, current_count,
                   loaded>>
    /\ LoadFrame

\* the end of the insert loop
load_to_staging_return ==
    /\ script = "load_to_staging" /\ pc = "inserting"
    /\ i >= Len(staging_records)
    /\ load_stats' = [load_stats EXCEPT !.successful_loads = successful_inserts,
                                        !.failed_loads = failed_inserts]
    /\ pc' = "validate_staging_load"
    /\ LoadStay
    /\ UNCHANGED <<staging, loadedFrom, load_report, loads, df, staging_records,
                   successful_inserts, failed_inserts, i, faults, current_count, loaded>>
    /\ LoadFrame

\* the process is killed between two batches
load_to_staging_interrupted ==
    /\ script = "load_to_staging" /\ pc = "inserting"
    /\ 0 < i /\ i < Len(staging_records)
    /\ LoadExit("130")
    /\ UNCHANGED <<staging, loadedFrom, load_report, loads>>
    /\ LoadFrame

\* validate_staging_load (skipped by main under --dry-run); total_records of
\* the view cites_staging_summary is the row count of staging
validate_staging_load ==
    /\ script = "load_to_staging" /\ pc = "validate_staging_load"
    /\ IF dry_run
       THEN /\ pc' = "generate_load_report"
            /\ LoadStay
            /\ UNCHANGED <<df, staging_records, load_stats, successful_inserts,
                           failed_inserts, i, faults, current_count, loaded>>
       ELSE \E fails \in BOOLEAN :
              LET expected_records == load_stats.successful_loads
                  actual_records == Len(staging)
              IN IF fails \/ Len(staging) = 0 \/ actual_records # expected_records
                 THEN LoadExit("1")
                 ELSE /\ pc' = "generate_load_report"
                      /\ LoadStay
                      /\ UNCHANGED <<df, staging_records, load_stats, successful_inserts,
                                     failed_inserts, i, faults, current_count, loaded>>
    /\ UNCHANGED <<staging, loadedFrom, load_report, loads>>
    /\ LoadFrame

\* json.dump of the report raises when load_stats holds the datetime objects
\* load_to_staging sets in a run that is not a dry run
LoadReportRaises(load_statistics) == load_statistics.started

\* the report file generate_load_report writes
LoadReport(load_statistics, dry) ==
    [written |-> TRUE, dry_run |-> dry,
     total_records |-> load_statistics.total_records,
     species_mapped |-> load_statistics.species_mapped,
     successful_loads |-> load_statistics.successful_loads,
     failed_loads |-> load_statistics.failed_loads]

\* generate_load_report and the end of main ("Staging load failed" and exit
\* status 1 when the report raises)
generate_load_report ==
    /\ script = "load_to_staging" /\ pc = "generate_load_report"
    /\ IF LoadReportRaises(load_stats)
       THEN /\ LoadExit("1")
            /\ UNCHANGED load_report
       ELSE /\ load_report' = LoadReport(load_stats, dry_run)
            /\ LoadExit("0")
    /\ UNCHANGED <<staging, loadedFrom, loads>>
    /\ LoadFrame

(***************************************************************************)
(* resume_staging_load.py.                                                 *)
(***************************************************************************)
\* the operator starts resume_staging_load.py
resume_main ==
    /\ script = "none"
    /\ loads < MaxLoads
    /\ loads' = loads + 1
    /\ script' = "resume_staging_load"
    /\ pc' = "get_loaded_record_ids"
    /\ UNCHANGED <<staging, loadedFrom, load_report, load_exit, dry_run, df,
                   staging_records, load_stats, successful_inserts, failed_inserts, i,
                   faults, current_count, loaded>>
    /\ LoadFrame

\* get_loaded_record_ids and the test against target_count
get_loaded_record_ids ==
    /\ script = "resume_staging_load" /\ pc = "get_loaded_record_ids"
    /\ \E raises \in BOOLEAN :
         IF raises
         THEN LoadExit("1")
         ELSE IF Len(staging) >= TargetCount
         THEN LoadExit("0")
         ELSE /\ current_count' = Len(staging)
              /\ pc' = "prepare"
              /\ LoadStay
              /\ UNCHANGED <<df, staging_records, load_stats, successful_inserts,
                             failed_inserts, i, faults, loaded>>
    /\ UNCHANGED <<staging, loadedFrom, load_report, loads>>
    /\ LoadFrame

\* df.iloc[current_count:]
ILoc(frame, n) == SubSeq(frame, n + 1, Len(frame))

\* df_remaining['Taxon'].map(species_mapping): NaN where the taxon is not found
MapTaxon(d) ==
    [d EXCEPT !.species_id = IF d.row.Taxon \in DOMAIN species_mapping
                             THEN species_mapping[d.row.Taxon] ELSE NaN]

\* load_remaining_records from pd.read_csv to the list `records`
resume_prepare ==
    /\ script = "resume_staging_load" /\ pc = "prepare"
    /\ \E raises \in BOOLEAN :
         IF raises
         THEN LoadExit("1")
         ELSE LET df_remaining == ILoc(ReadCsv(csv), current_count)
                  mapped == [k \in 1..Len(df_remaining) |-> MapTaxon(df_remaining[k])]
              IN /\ df' = mapped
                 /\ staging_records' = [k \in 1..Len(mapped) |-> PrepareRecord(mapped[k])]
                 /\ i' = 0
                 /\ loaded' = 0
                 /\ pc' = "resume_inserting"
                 /\ LoadStay
                 /\ UNCHANGED <<load_stats, successful_inserts, failed_inserts, faults,
                                current_count>>
    /\ UNCHANGED <<staging, loadedFrom, load_report, loads>>
    /\ LoadFrame

\* one iteration of the insert loop of load_remaining_records
resume_insert ==
    /\ script = "resume_staging_load" /\ pc = "resume_inserting"
    /\ i < Len(staging_records)
    /\ LET last == Min(i + ResumeBatchSize, Len(staging_records))
           batch == SubSeq(staging_records, i + 1, last)
       IN \E fault \in BOOLEAN :
            LET result == StagingInsert(staging, batch, fault)
            IN /\ staging' = result.table
               /\ faults' = IF result.error = "other" THEN faults + 1 ELSE faults
               /\ IF result.error = "none"
                  THEN /\ loaded' = loaded + Len(batch)
                       /\ loadedFrom' = loadedFrom \o [k \in 1..Len(batch) |-> df[i + k].index]
                  ELSE /\ loaded' = loaded
                       /\ loadedFrom' = loadedFrom
    /\ i' = i + ResumeBatchSize
    /\ LoadStay
    /\ UNCHANGED <<pc, load_report, loads, df, staging_records, load_stats,
                   successful_inserts, failed_inserts, current_count>>
    /\ LoadFrame

\* the end of the loop, the final count and the return of main
resume_return ==
    /\ script = "resume_staging_load" /\ pc = "resume_inserting"
    /\ i >= Len(staging_records)
    /\ \E raises \in BOOLEAN : LoadExit(IF raises THEN "1" ELSE "0")
    /\ UNCHANGED <<staging, loadedFrom, load_report, loads>>
    /\ LoadFrame

(***************************************************************************)
(* TradeDataLoader (core/load_optimized_trade_data.py): the full reload of *)
(* the production table.                                                   *)
(***************************************************************************)
InitLoadStatsReload ==
    [files_processed |-> 0, records_loaded |-> 0, records_failed |-> 0,
     species_missing |-> 0]

NoBackup == [written |-> FALSE]

\* the files *_trade_data_optimized.json of optimized_dir, each with the
\* species name of its file name and its denormalized records; no file has
\* more records than one insert batch takes
optimized_files ==
    << [species_name |-> "Ursus maritimus",
        records |-> << [id |-> "r1", year |-> 2023, appendix |-> "I", importer |-> "US",
                        exporter |-> "CA", term |-> "skins", purpose |-> "T",
                        source |-> "W", quantity_normalized |-> 1] >>],
       [species_name |-> "Delphinapterus leucas",
        records |-> << [id |-> "r2", year |-> 2021, appendix |-> "II", importer |-> "DK",
                        exporter |-> "GL", term |-> "teeth", purpose |-> "P",
                        source |-> "W", quantity_normalized |-> 1] >>] >>

\* self.species_id_map.get(name): None when the name is not registered
species_id_map(name) ==
    IF name \in DOMAIN species_mapping THEN species_mapping[name] ELSE None

\* convert_record_to_db_format, for a species that has an id
convert_record_to_db_format(record, species_scientific_name) ==
    [species_id |-> species_id_map(species_scientific_name), record_id |-> record.id,
     year |-> record.year, appendix |-> record.appendix,
     taxon |-> species_scientific_name, term |-> record.term,
     quantity |-> record.quantity_normalized, importer |-> record.importer,
     exporter |-> record.exporter, purpose |-> record.purpose, source |-> record.source,
     data_source |-> NULL]

\* the fetch loop of backup_existing_data
RECURSIVE BackupChunks(_, _, _)
BackupChunks(table, offset, total_records) ==
    IF offset < total_records
    THEN SelectRange(table, offset, BackupChunkSize)
         \o BackupChunks(table, offset + BackupChunkSize, total_records)
    ELSE <<>>

\* remaining_count == 0, or remaining_count < current_count * 0.1
ClearedEnough(remaining, current) ==
    remaining = 0 \/ 10 * remaining < current

\* what the full reload leaves unchanged at every step
ReloadFrame ==
    UNCHANGED <<staging, uniqueConstraint, migration_stats, staging_records, i, inserted,
                errors, lastError, faults, exit_code, runs, prodBefore, prevRun, gateVars,
                csv, df, load_stats, successful_inserts, failed_inserts, load_report,
                loadedFrom, current_count, loaded, load_exit, toolVars>>

\* the process ends (sys.exit(main())) and its TradeDataLoader object with it
ReloadExit(code) ==
    /\ script' = "none"
    /\ pc' = "idle"
    /\ reload_exit' = code
    /\ dry_run' = FALSE
    /\ backup' = FALSE
    /\ stats' = InitLoadStatsReload
    /\ file' = 0
    /\ UNCHANGED loads

\* what a step inside the full reload leaves of the process as it is
ReloadStay == UNCHANGED <<script, reload_exit, dry_run, backup, loads>>

\* the operator starts load_optimized_trade_data.py [--dry-run] [--backup]
reload_main ==
    /\ script = "none"
    /\ loads < MaxLoads
    /\ loads' = loads + 1
    /\ script' = "load_optimized_trade_data"
    /\ pc' = "backup_existing_data"
    /\ \E d \in BOOLEAN, b \in BOOLEAN : dry_run' = d /\ backup' = b
    /\ stats' = InitLoadStatsReload
    /\ file' = 0
    /\ backup_file' = NoBackup
    /\ UNCHANGED <<production, reload_exit>>
    /\ ReloadFrame

\* backup_existing_data, which main calls under --backup in a live run
backup_existing_data ==
    /\ script = "load_optimized_trade_data" /\ pc = "backup_existing_data"
    /\ IF backup /\ ~dry_run
       THEN \E raises \in BOOLEAN :
              IF raises
              THEN /\ ReloadExit("1")
                   /\ UNCHANGED backup_file
              ELSE LET total_records == Len(production)
                       all_records == BackupChunks(production, 0, total_records)
                   IN /\ backup_file' = [written |-> TRUE,
                                         record_count |-> Len(all_records),
                                         records |-> all_records]
                      /\ pc' = "clear_existing_data"
                      /\ ReloadStay
                      /\ UNCHANGED <<stats, file>>
       ELSE /\ pc' = "clear_existing_data"
            /\ ReloadStay
            /\ UNCHANGED <<backup_file, stats, file>>
    /\ UNCHANGED production
    /\ ReloadFrame

\* clear_existing_data: the truncate, the delete without filter or the
\* batch delete leave `remaining_count` rows, the last ones in store order
clear_existing_data ==
    /\ script = "load_optimized_trade_data" /\ pc = "clear_existing_data"
    /\ IF dry_run
       THEN /\ pc' = "load_all_data"
            /\ ReloadStay
            /\ UNCHANGED <<production, stats, file>>
       ELSE \E raises \in BOOLEAN, remaining_count \in 0..Len(production) :
              LET current == Len(production)
              IN IF raises
                 THEN /\ ReloadExit("1")
                      /\ UNCHANGED production
                 ELSE /\ production' = SubSeq(production, current - remaining_count + 1,
                                              current)
                      /\ IF ClearedEnough(remaining_count, current)
                         THEN /\ pc' = "load_all_data"
                              /\ ReloadStay
                              /\ UNCHANGED <<stats, file>>
                         ELSE ReloadExit("1")
    /\ UNCHANGED backup_file
    /\ ReloadFrame

\* load_all_data up to the loop over the files: load_species_mapping
load_all_data ==
    /\ script = "load_optimized_trade_data" /\ pc = "load_all_data"
    /\ \E raises \in BOOLEAN :
         IF raises
         THEN ReloadExit("1")
         ELSE /\ file' = 0
              /\ pc' = "load_species_file"
              /\ ReloadStay
              /\ UNCHANGED stats
    /\ UNCHANGED <<production, backup_file>>
    /\ ReloadFrame

\* one turn of the loop of load_all_data: load_species_file on the next file
load_species_file ==
    /\ script = "load_optimized_trade_data" /\ pc = "load_species_file"
    /\ file < Len(optimized_files)
    /\ LET f == optimized_files[file + 1]
           records == f.records
           known == species_id_map(f.species_name) # None
           db_records == IF known
                         THEN [k \in 1..Len(records) |->
                                 convert_record_to_db_format(records[k], f.species_name)]
                         ELSE <<>>
           failed_count == Len(records) - Len(db_records)
       IN IF dry_run
          THEN /\ stats' = [stats EXCEPT !.files_processed = @ + 1,
                                         !.records_loaded = @ + Len(records)]
               /\ UNCHANGED production
          ELSE IF db_records = <<>>
          THEN /\ stats' = [stats EXCEPT !.files_processed = @ + 1,
                                         !.records_failed = @ + failed_count,
                                         !.species_missing = @ + failed_count]
               /\ UNCHANGED production
          ELSE \E fault \in BOOLEAN :
                 LET result == StoreInsert(production, db_records, fault)
                     loaded_count == IF result.error = "none" THEN Len(db_records) ELSE 0
                 IN /\ production' = result.table
                    /\ stats' = [stats EXCEPT
                                   !.files_processed = @ + 1,
                                   !.records_loaded = @ + loaded_count,
                                   !.records_failed = @ + Len(db_records) - loaded_count]
    /\ file' = file + 1
    /\ ReloadStay
    /\ UNCHANGED <<pc, backup_file>>
    /\ ReloadFrame

\* the end of the loop, validate_loaded_data (a warning at most),
\* print_final_stats and the return of main
reload_return ==
    /\ script = "load_optimized_trade_data" /\ pc = "load_species_file"
    /\ file >= Len(optimized_files)
    /\ ReloadExit("0")
    /\ UNCHANGED <<production, backup_file>>
    /\ ReloadFrame

(***************************************************************************)
(* The source files of the extractors (trade_db_NN.csv) and Python's       *)
(* ordering of the strings found in them.                                  *)
(***************************************************************************)
\* None in a numeric field (quantity_normalized, row_number, a lookup id)
NoNumber == -1

\* one row of a trade_db_NN.csv file, by its column names
TradeRow(id, yr, app, tax, cl, ord, fam, gen, trm, qty, un, imp, exp, org, pur, src, rep) ==
    [Id |-> id, Year |-> yr, Appendix |-> app, Taxon |-> tax, Class |-> cl,
     Order |-> ord, Family |-> fam, Genus |-> gen, Term |-> trm, Quantity |-> qty,
     Unit |-> un, Importer |-> imp, Exporter |-> exp, Origin |-> org, Purpose |-> pur,
     Source |-> src, Reporter_type |-> rep]

\* a polar bear row with every column filled but Origin
srcA == TradeRow("1", "2023", "II", "Ursus maritimus", "Mammalia", "Carnivora", "Ursidae",
                 "Ursus", "skins", "2", "kg", "US", "CA", "", "T", "W", "E")
\* a polar bear row of another appendix, with quantity 0
srcB == TradeRow("2", "2024", "I", "Ursus maritimus", "Mammalia", "Carnivora", "Ursidae",
                 "Ursus", "tusks", "0", "kg", "DK", "GL", "CA", "P", "C", "I")
\* a polar bear row with the optional columns empty and an unparsable quantity
srcC == TradeRow("3", "", "II", "Ursus maritimus", "Mammalia", "Carnivora", "Ursidae",
                 "Ursus", "", "n/a", "", "", "", "", "", "", "")
\* a polar bear row with a larger quantity
srcD == TradeRow("4", "2023", "II", "Ursus maritimus", "Mammalia", "Carnivora", "Ursidae",
                 "Ursus", "skins", "5", "kg", "CA", "US", "", "T", "W", "E")
\* a narwhal row
srcM == TradeRow("5", "2024", "II", "Monodon monoceros", "Mammalia", "Cetacea",
                 "Monodontidae", "Monodon", "tusks", "2", "kg", "DK", "GL", "", "P", "W",
                 "E")
\* a row of a taxon that is in no species list
srcX == TradeRow("6", "2023", "II", "Canis lupus", "Mammalia", "Carnivora", "Canidae",
                 "Canis", "skins", "2", "kg", "US", "CA", "", "T", "W", "E")

\* the strings of the lookup fields, in the order Python's < gives them
\* (by code point: "" first, upper case before lower case)
Collation ==
    <<"", "C", "CA", "Canidae", "Canis", "Canis lupus", "Carnivora", "Cetacea", "DK", "E",
      "GL", "I", "II", "Mammalia", "Monodon", "Monodon monoceros", "Monodontidae", "P", "T",
      "US", "Ursidae", "Ursus", "Ursus maritimus", "W", "kg", "skins", "tusks">>

\* the position of a string in Python's order
Rank(s) == CHOOSE k \in 1..Len(Collation) : Collation[k] = s

RankBase == Len(Collation) + 1

\* tuples of strings compare lexicographically: the key of a tuple orders as
\* the tuple does
RECURSIVE TupleKey(_)
TupleKey(t) ==
    IF Len(t) = 0 THEN 0
    ELSE TupleKey(SubSeq(t, 1, Len(t) - 1)) * RankBase + Rank(t[Len(t)])

\* the hash seeds of a Python process (PYTHONHASHSEED is random by default):
\* the iteration order of a set depends on it
HashSeed == 1..MaxSeed

\* the slots of the hash space the elements of a set are spread over
HashModulus == 10007

HashMult(seed) ==
    CASE seed = 1 -> 1
      [] seed = 2 -> HashModulus - 1
      [] OTHER -> 2 * seed + 3

\* where the seed's hash puts an element of key `key`
Hash(seed, key) == ((key % HashModulus) * HashMult(seed)) % HashModulus

\* pairs <<key, value>>: the iteration of a set of such pairs under a seed
RECURSIVE SetIter(_, _)
SetIter(S, seed) ==
    IF S = {} THEN <<>>
    ELSE LET first == CHOOSE x \in S : \A y \in S : Hash(seed, x[1]) <= Hash(seed, y[1])
         IN  <<first>> \o SetIter(S \ {first}, seed)

\* x put into a sorted list, after the elements that are not greater
RECURSIVE Insert(_, _)
Insert(seq, x) ==
    IF Len(seq) = 0 THEN <<x>>
    ELSE IF x[1] < seq[1][1] THEN <<x>> \o seq
    ELSE <<seq[1]>> \o Insert(Tail(seq), x)

\* sorted(iterable), a stable sort, on pairs <<key, value>>
RECURSIVE sorted(_)
sorted(seq) ==
    IF Len(seq) = 0 THEN <<>>
    ELSE Insert(sorted(SubSeq(seq, 1, Len(seq) - 1)), seq[Len(seq)])

\* the values of a sequence of pairs
Values(pairs) == [k \in 1..Len(pairs) |-> pairs[k][2]]

\* a set of strings as pairs, each string with its key
Keyed(S) == {<<Rank(s), s>> : s \in S}

\* a set of tuples of strings as pairs
KeyedTuples(S) == {<<TupleKey(t), t>> : t \in S}
(***************************************************************************)
(* SpeciesTradeExtractor (core/extract_species_trade_data.py), in its      *)
(* default mode 'full'.                                                    *)
(***************************************************************************)
\* load_species_list: the scientific names of species_names_latest.csv
species_set == {"Ursus maritimus", "Monodon monoceros"}

InitExtractStats ==
    [species_processed |-> 0, species_with_trade |-> 0, species_without_trade |-> 0,
     total_trade_records |-> 0, quantity_issues |-> 0, files_processed |-> 0]

\* the quantity strings Decimal() accepts, with their values
DecimalOf == ("0" :> 0) @@ ("2" :> 2) @@ ("5" :> 5)

\* the year strings int() accepts, with their values
IntOf == ("2023" :> 2023) @@ ("2024" :> 2024)

\* extract_species_trade_data.py:153  qty_float > 1_000_000_000
LargeQuantity == 1000000000

Micrograms == {"microgrammes", "microgram"}

\* normalize_quantity: the float, or None with a quantity issue counted when
\* the string does not parse
normalize_quantity(quantity_str, unit) ==
    IF quantity_str = "" THEN [value |-> NoNumber, issues |-> 0]
    ELSE IF quantity_str \in DOMAIN DecimalOf
         THEN LET qty_float == DecimalOf[quantity_str]
              IN  IF qty_float > LargeQuantity
                  THEN [value |-> IF unit \in Micrograms THEN qty_float \div 1000000
                                  ELSE qty_float,
                        issues |-> 1]
                  ELSE [value |-> qty_float, issues |-> 0]
         ELSE [value |-> NoNumber, issues |-> 1]

\* _safe_int: None for an empty string and for a ValueError
_safe_int(value) == IF value \in DOMAIN IntOf THEN IntOf[value] ELSE NullYear

\* the trade_record process_trade_file builds of a row
trade_record(row, file_name, row_num) ==
    [id |-> row.Id, year |-> _safe_int(row.Year), appendix |-> row.Appendix,
     class |-> row.Class, order |-> row.Order, family |-> row.Family, genus |-> row.Genus,
     term |-> row.Term, quantity_raw |-> row.Quantity,
     quantity_normalized |-> normalize_quantity(row.Quantity, row.Unit).value,
     unit |-> row.Unit, importer |-> row.Importer, exporter |-> row.Exporter,
     origin |-> row.Origin, purpose |-> row.Purpose, source |-> row.Source,
     reporter_type |-> row.Reporter_type, source_file |-> file_name,
     row_number |-> row_num]

\* the records process_trade_file appends to species_data[taxon] from the
\* first n rows of a file; no Taxon of the modelled files has blanks to strip
RECURSIVE FileRecords(_, _, _)
FileRecords(trade_file, taxon, n) ==
    IF n = 0 THEN <<>>
    ELSE FileRecords(trade_file, taxon, n - 1) \o
         (IF trade_file.rows[n].Taxon = taxon
          THEN <<trade_record(trade_file.rows[n], trade_file.name, n)>>
          ELSE <<>>)

\* the quantity issues normalize_quantity counts on the matching rows
RECURSIVE FileIssues(_, _)
FileIssues(trade_file, n) ==
    IF n = 0 THEN 0
    ELSE FileIssues(trade_file, n - 1) +
         (IF trade_file.rows[n].Taxon \in species_set
          THEN normalize_quantity(trade_file.rows[n].Quantity, trade_file.rows[n].Unit).issues
          ELSE 0)

\* species_data after process_trade_file: a defaultdict, with a key for each
\* taxon that had a match
AppendRecords(data, trade_file) ==
    LET found == {s \in species_set :
                    FileRecords(trade_file, s, Len(trade_file.rows)) # <<>>}
    IN  [s \in DOMAIN data \cup found |->
           (IF s \in DOMAIN data THEN data[s] ELSE <<>>) \o
           FileRecords(trade_file, s, Len(trade_file.rows))]

RECURSIVE SeqSum(_)
SeqSum(seq) == IF Len(seq) = 0 THEN 0 ELSE seq[1] + SeqSum(Tail(seq))

SeqMin(seq) == CHOOSE x \in Range(seq) : \A y \in Range(seq) : x <= y

SeqMax(seq) == CHOOSE x \in Range(seq) : \A y \in Range(seq) : x >= y

\* f"{min(years)}-{max(years)}" if years else "Unknown"
YearRange(years) ==
    IF Len(years) = 0 THEN [text |-> "Unknown"]
    ELSE [text |-> "min-max", min |-> SeqMin(years), max |-> SeqMax(years)]

\* sorted(list(set(...))) of integers, the set iterated under a hash seed
SortedNumbers(S, seed) == Values(sorted(SetIter({<<n, n>> : n \in S}, seed)))

\* list(set(...)) of strings: the set as the hash seed iterates it
ListedStrings(S, seed) == Values(SetIter(Keyed(S), seed))

\* sorted(list(set(...))) of strings
SortedStrings(S, seed) == Values(sorted(SetIter(Keyed(S), seed)))

\* a dict of counts in insertion order, as pairs <<key, count>>: the count of
\* each key of a list, keys in the order of their first occurrence
RECURSIVE CountItems(_)
CountItems(keys) ==
    IF Len(keys) = 0 THEN <<>>
    ELSE LET before == CountItems(SubSeq(keys, 1, Len(keys) - 1))
             key == keys[Len(keys)]
         IN  IF \E k \in 1..Len(before) : before[k][1] = key
             THEN [k \in 1..Len(before) |->
                     IF before[k][1] = key THEN <<key, before[k][2] + 1>> ELSE before[k]]
             ELSE Append(before, <<key, 1>>)

\* sorted(items, key=lambda x: x[1], reverse=True)[:5], also what
\* Counter.most_common(5) returns: a stable sort by falling count
TopLimit == 5

MostCommon(items) ==
    LET ordered == Values(sorted([k \in 1..Len(items) |-> <<0 - items[k][2], items[k]>>]))
    IN  SubSeq(ordered, 1, Min(TopLimit, Len(ordered)))

\* the statistics both summaries give of the quantities of one unit
QuantityStats(quantities) ==
    [total |-> SeqSum(quantities), count |-> Len(quantities),
     average |-> <<SeqSum(quantities), Len(quantities)>>,
     min |-> SeqMin(quantities), max |-> SeqMax(quantities)]

\* _calculate_species_summary, of a non-empty list of trade records
_calculate_species_summary(trade_records, seed) ==
    LET IsYear(y) == y # NullYear
        IsText(s) == s # ""
        years == SelectSeq(Column(trade_records, "year"), IsYear)
        importers == Range(SelectSeq(Column(trade_records, "importer"), IsText))
        exporters == Range(SelectSeq(Column(trade_records, "exporter"), IsText))
        terms == CountItems(SelectSeq(Column(trade_records, "term"), IsText))
        \* if record['quantity_normalized'] and record['unit']: neither None,
        \* nor 0.0, nor ''
        Counted(r) == r.quantity_normalized # NoNumber /\ r.quantity_normalized # 0
                        /\ r.unit # ""
        measured == SelectSeq(trade_records, Counted)
        units == Range(Column(measured, "unit"))
    IN  [total_records |-> Len(trade_records),
         year_range |-> YearRange(years),
         years_with_data |-> SortedNumbers(Range(years), seed),
         importing_countries |-> SortedStrings(importers, seed),
         exporting_countries |-> SortedStrings(exporters, seed),
         terms_traded |-> terms,
         quantity_summary |->
             [u \in units |->
                LET OfUnit(r) == r.unit = u
                IN  QuantityStats(Column(SelectSeq(measured, OfUnit),
                                         "quantity_normalized"))],
         top_terms |-> MostCommon(terms)]

\* the <species>_trade_data.json generate_species_json_files writes, as
\* json.load reads it back: every key is a string and every value a string,
\* a number or null, which json.dump and json.load leave as they are
species_json(name, trade_records, seed) ==
    [species |-> name,
     summary |-> _calculate_species_summary(trade_records, seed),
     trade_records |-> trade_records,
     extraction_metadata |->
         [total_records |-> Len(trade_records),
          source_files |-> Range(Column(trade_records, "source_file"))]]

\* what the extraction and optimization tools leave unchanged at every step
ToolFrame ==
    UNCHANGED <<staging, production, uniqueConstraint, dry_run, migration_stats,
                staging_records, i, inserted, errors, lastError, faults, exit_code, runs,
                prodBefore, prevRun, gateVars, loadVars, reloadVars, trade_dir>>

InitArcticStats ==
    [files_processed |-> 0, total_records_scanned |-> 0, arctic_records_found |-> 0,
     species_match_counts |-> <<>>, unique_species_found |-> 0]

NoSummaryReport == [written |-> FALSE]

\* an extractor process ends and its objects with it
ExtractExit(code) ==
    /\ script' = "none"
    /\ pc' = "idle"
    /\ extract_exit' = code
    /\ species_data' = <<>>
    /\ extract_stats' = InitExtractStats
    /\ arctic_results' = <<>>
    /\ arctic_stats' = InitArcticStats
    /\ next_file' = 0

\* the operator starts extract_species_trade_data.py
extract_main ==
    /\ script = "none"
    /\ extractions < MaxExtractions
    /\ extractions' = extractions + 1
    /\ script' = "extract_species_trade_data"
    /\ pc' = IF Len(trade_dir) = 0 THEN "generate_species_json_files"
             ELSE "process_trade_file"
    /\ species_data' = <<>>
    /\ extract_stats' = InitExtractStats
    /\ next_file' = 1
    /\ UNCHANGED <<individual_species, extraction_summary_report, extracted_data, arctic_results,
                   arctic_stats, combined, extract_exit, optVars>>
    /\ ToolFrame

\* one turn of the loop of extract_all_trade_data: process_trade_file on the
\* next file.  An exception of open() or of the csv reader is logged and
\* raised again; neither extract_all_trade_data nor run nor main handles it
process_trade_file ==
    /\ script = "extract_species_trade_data" /\ pc = "process_trade_file"
    /\ \E raises \in BOOLEAN :
         IF raises
         THEN /\ ExtractExit("1")
              /\ UNCHANGED <<extractions, individual_species, extraction_summary_report,
                             extracted_data, combined, optVars>>
         ELSE LET trade_file == trade_dir[next_file]
                  data == AppendRecords(species_data, trade_file)
                  added == Cardinality({n \in 1..Len(trade_file.rows) :
                                   trade_file.rows[n].Taxon \in species_set})
              IN  /\ species_data' = data
                  /\ extract_stats' =
                       [extract_stats EXCEPT
                          !.total_trade_records = @ + added,
                          !.quantity_issues =
                              @ + FileIssues(trade_file, Len(trade_file.rows)),
                          !.files_processed = @ + 1]
                  /\ next_file' = next_file + 1
                  /\ pc' = IF next_file = Len(trade_dir)
                           THEN "generate_species_json_files" ELSE "process_trade_file"
                  /\ UNCHANGED <<script, extract_exit, extractions, individual_species,
                                 extraction_summary_report, extracted_data, arctic_results,
                                 arctic_stats, combined, optVars>>
    /\ ToolFrame

\* species with trade data, as generate_species_json_files tests it
HasTrade(data, s) == s \in DOMAIN data /\ data[s] # <<>>

\* generate_species_json_files and generate_summary_report, after which run
\* and main return; files of species without trade data are left as they were
generate_species_json_files ==
    /\ script = "extract_species_trade_data" /\ pc = "generate_species_json_files"
    /\ extraction_summary_report' =
         [written |-> TRUE,
          statistics |->
              [extract_stats EXCEPT
                 !.species_processed = Cardinality(species_set),
                 !.species_with_trade =
                     Cardinality({s \in species_set : HasTrade(species_data, s)}),
                 !.species_without_trade =
                     Cardinality({s \in species_set : ~HasTrade(species_data, s)})]]
    /\ \E seed \in HashSeed :
         individual_species' =
             [s \in DOMAIN individual_species \cup {t \in species_set : HasTrade(species_data, t)} |->
                IF HasTrade(species_data, s)
                THEN species_json(s, species_data[s], seed)
                ELSE individual_species[s]]
    /\ ExtractExit("0")
    /\ UNCHANGED <<extractions, extracted_data, combined, optVars>>
    /\ ToolFrame

(***************************************************************************)
(* ArcticTradeDataExtractor                                                *)
(* (cites_migration_2025/scripts/extract_arctic_trade_data.py).            *)
(***************************************************************************)
\* _load_arctic_species: the species lookup by scientific name
arctic_species ==
    ("Ursus maritimus" :> [common_name |-> "Polar Bear", class |-> "MAMMALIA"]) @@
    ("Monodon monoceros" :> [common_name |-> "Narwhal", class |-> "MAMMALIA"]) @@
    ("Branta canadensis leucopareia" :>
         [common_name |-> "Aleutian Canada Goose", class |-> "AVES"])

\* extract_arctic_trade_data.py:99  chunk_size = 50000 (scaled)
ChunkSize == 2

\* the chunks pd.read_csv(file_path, chunksize=chunk_size) gives of a file
NumChunks(rows) == (Len(rows) + ChunkSize - 1) \div ChunkSize

\* the rows of the first `chunks` chunks
Scanned(rows, chunks) == SubSeq(rows, 1, Min(Len(rows), chunks * ChunkSize))

\* chunk['Taxon'].isin(self.arctic_species.keys())
IsArctic(row) == row.Taxon \in DOMAIN arctic_species

\* the rows the mask keeps
ArcticRows(rows) == SelectSeq(rows, IsArctic)

\* the file_stats process_single_file returns when `chunks` chunks went
\* through the loop and then, if `raises`, an exception ended the try block
file_stats_of(file_info, chunks, raises) ==
    LET seen == ArcticRows(Scanned(file_info.rows, chunks))
    IN  [file |-> file_info.name,
         records_scanned |-> Len(Scanned(file_info.rows, chunks)),
         arctic_records |-> Len(seen),
         species_found |-> {seen[k].Taxon : k \in 1..Len(seen)},
         error |-> IF raises THEN "error" ELSE "none"]

\* the operator starts extract_arctic_trade_data.py; main keeps an existing
\* output directory (os.makedirs(..., exist_ok=True))
arctic_main ==
    /\ script = "none"
    /\ extractions < MaxExtractions
    /\ extractions' = extractions + 1
    /\ script' = "extract_arctic_trade_data"
    /\ pc' = IF Len(trade_dir) = 0 THEN "aggregate" ELSE "process_single_file"
    /\ arctic_results' = <<>>
    /\ arctic_stats' = InitArcticStats
    /\ next_file' = 1
    /\ UNCHANGED <<species_data, extract_stats, individual_species,
                   extraction_summary_report, extracted_data, combined, extract_exit,
                   optVars>>
    /\ ToolFrame

\* process_single_file on the next file of file_list.  With --parallel the
\* calls run in pool workers; pool.map returns their results in the order of
\* file_list and each call writes a file of its own, so the calls are taken
\* in that order
process_single_file ==
    /\ script = "extract_arctic_trade_data" /\ pc = "process_single_file"
    /\ LET file_info == trade_dir[next_file]
       IN  \E raises \in BOOLEAN : \E chunks \in 0..NumChunks(file_info.rows) :
             /\ raises \/ chunks = NumChunks(file_info.rows)
             /\ arctic_results' =
                  Append(arctic_results, file_stats_of(file_info, chunks, raises))
             /\ extracted_data' =
                  IF ~raises /\ ArcticRows(file_info.rows) # <<>>
                  THEN (next_file :> ArcticRows(file_info.rows)) @@ extracted_data
                  ELSE extracted_data
    /\ next_file' = next_file + 1
    /\ pc' = IF next_file = Len(trade_dir) THEN "aggregate" ELSE "process_single_file"
    /\ UNCHANGED <<script, extractions, species_data, extract_stats, individual_species,
                   extraction_summary_report, arctic_stats, combined, extract_exit,
                   optVars>>
    /\ ToolFrame

\* species_match_counts after the first n results: each species found in a
\* file is given the arctic_records of the whole file
RECURSIVE species_match_counts(_, _)
species_match_counts(file_results, n) ==
    IF n = 0 THEN <<>>
    ELSE LET counts == species_match_counts(file_results, n - 1)
             result == file_results[n]
         IN  [name \in DOMAIN counts \cup result.species_found |->
                IF name \in result.species_found
                THEN (IF name \in DOMAIN counts THEN counts[name] ELSE 0)
                     + result.arctic_records
                ELSE counts[name]]

\* the aggregation loop of extract_all_arctic_data
Aggregate(file_results) ==
    [files_processed |-> Len(file_results),
     total_records_scanned |-> SeqSum(Column(file_results, "records_scanned")),
     arctic_records_found |-> SeqSum(Column(file_results, "arctic_records")),
     species_match_counts |-> species_match_counts(file_results, Len(file_results)),
     unique_species_found |->
         Cardinality(UNION {file_results[k].species_found : k \in 1..Len(file_results)})]

\* pd.concat of the files arctic_trade_NN.csv of the output directory, in the
\* order of their names
RECURSIVE ConcatFiles(_, _)
ConcatFiles(dir, n) ==
    IF n = 0 THEN <<>>
    ELSE ConcatFiles(dir, n - 1) \o (IF n \in DOMAIN dir THEN dir[n] ELSE <<>>)

\* an empty Year is NaN, which sort_values puts last
YearLast == MaxYear + 1

\* a row of the combined file: the columns of the source row that identify
\* it, and the two columns _combine_extracted_files adds
combined_row(row) ==
    [Id |-> row.Id, Year |-> _safe_int(row.Year), Taxon |-> row.Taxon,
     common_name |-> IF row.Taxon \in DOMAIN arctic_species
                     THEN arctic_species[row.Taxon].common_name ELSE "",
     species_class |-> IF row.Taxon \in DOMAIN arctic_species
                       THEN arctic_species[row.Taxon].class ELSE ""]

\* combined_df.sort_values(['Year', 'Taxon'])
SortKey(row) ==
    (IF row.Year = NullYear THEN YearLast ELSE row.Year) * RankBase + Rank(row.Taxon)

\* _combine_extracted_files on a directory that holds a file
combine_extracted_files(dir) ==
    LET last == CHOOSE n \in DOMAIN dir : \A m \in DOMAIN dir : m <= n
        all_data == ConcatFiles(dir, last)
        combined_df == [k \in 1..Len(all_data) |-> combined_row(all_data[k])]
    IN  Values(sorted([k \in 1..Len(combined_df) |->
                         <<SortKey(combined_df[k]), combined_df[k]>>]))

\* extract_all_arctic_data after the files: the statistics, then
\* _save_extraction_stats and _combine_extracted_files, which returns early
\* when the directory holds no file
aggregate ==
    /\ script = "extract_arctic_trade_data" /\ pc = "aggregate"
    /\ arctic_stats' = Aggregate(arctic_results)
    /\ combined' = IF DOMAIN extracted_data = {} THEN combined
                   ELSE combine_extracted_files(extracted_data)
    /\ pc' = "_print_summary"
    /\ UNCHANGED <<script, extractions, species_data, extract_stats, individual_species,
                   extraction_summary_report, extracted_data, arctic_results, next_file,
                   extract_exit, optVars>>
    /\ ToolFrame

\* _print_summary divides by total_records_scanned: with no record scanned
\* the ZeroDivisionError ends the process
_print_summary ==
    /\ script = "extract_arctic_trade_data" /\ pc = "_print_summary"
    /\ ExtractExit(IF arctic_stats.total_records_scanned = 0 THEN "1" ELSE "0")
    /\ UNCHANGED <<extractions, individual_species, extraction_summary_report,
                   extracted_data, combined, optVars>>
    /\ ToolFrame

(***************************************************************************)
(* TradeDataOptimizer (core/optimize_species_trade_json.py) and the two    *)
(* readers of its files.                                                   *)
(***************************************************************************)
static_fields == <<"appendix", "class", "order", "family", "genus">>

location_fields == <<"importer", "exporter", "origin">>

categorical_fields == <<"term", "purpose", "source", "reporter_type", "unit">>

\* a dict key that is the integer n, and one that is the string str(n):
\* Python holds them apart (0 in {"0": x} is False)
IntKey(n) == <<"int", n>>

StrKey(n) == <<"str", n>>

\* {i: x for i, x in enumerate(seq)}
Enumerated(seq) == [key \in {IntKey(k - 1) : k \in 1..Len(seq)} |-> seq[key[2] + 1]]

\* {x: i for i, x in enumerate(seq)}
IndexOf(seq) == [x \in Range(seq) |-> (CHOOSE k \in 1..Len(seq) : seq[k] = x) - 1]

\* mapping.get(key, None) for a mapping to numbers
GetId(mapping, key) == IF key \in DOMAIN mapping THEN mapping[key] ELSE NoNumber

\* tuple(record.get(field, '') for field in static_fields)
static_combo(record) == [k \in 1..Len(static_fields) |-> record[static_fields[k]]]

\* dict(zip(static_fields, combo))
taxonomic_data(combo) ==
    [appendix |-> combo[1], class |-> combo[2], order |-> combo[3], family |-> combo[4],
     genus |-> combo[5]]

\* enumerate(sorted(a_set)): the set is iterated in the order the hash seed
\* gives and sorted() puts the elements in order
SortedTuples(S, seed) == Values(sorted(SetIter(KeyedTuples(S), seed)))

\* the lookup tables extract_lookup_tables builds of the trade records
lookup_tables_of(trade_records, seed) ==
    LET static_combinations == {static_combo(trade_records[k]) : k \in 1..Len(trade_records)}
        ordered == SortedTuples(static_combinations, seed)
        static_lookup == Enumerated([k \in 1..Len(ordered) |-> taxonomic_data(ordered[k])])
        all_locations ==
            {trade_records[k][location_fields[f]] :
               k \in 1..Len(trade_records), f \in 1..Len(location_fields)} \ {""}
        location_lookup == IndexOf(SortedStrings(all_locations, seed))
        values(field) == Range(Column(trade_records, field)) \ {""}
        categorical_lookup ==
            [field \in Range(categorical_fields) |->
               IndexOf(SortedStrings(values(field), seed))]
    IN  [taxonomic |-> static_lookup,
         locations |-> Enumerated(SortedStrings(all_locations, seed)),
         location_lookup |-> location_lookup,
         categorical |-> categorical_lookup,
         categorical_reverse |->
             [field \in Range(categorical_fields) |->
                Enumerated(SortedStrings(values(field), seed))]]

\* the taxonomic_id of a record: the first key of static_lookup, in the order
\* of insertion, whose data is the record's combination
taxonomic_id_of(static_lookup, record) ==
    LET tids == {key[2] : key \in DOMAIN static_lookup}
        found == {tid \in tids :
                    static_lookup[IntKey(tid)] = taxonomic_data(static_combo(record))}
    IN  IF found = {} THEN NoNumber
        ELSE CHOOSE tid \in found : \A other \in found : tid <= other

\* the normalized record of a trade record.  The code drops the keys whose
\* value is None and every reader asks with record.get(key), which gives None
\* for a missing key: here the key stays, with the value None
normalized(record, tables) ==
    [id |-> record.id, year |-> record.year,
     taxonomic_id |-> taxonomic_id_of(tables.taxonomic, record),
     term_id |-> GetId(tables.categorical["term"], record.term),
     quantity_raw |-> record.quantity_raw,
     quantity_normalized |-> record.quantity_normalized,
     unit_id |-> GetId(tables.categorical["unit"], record.unit),
     importer_id |-> GetId(tables.location_lookup, record.importer),
     exporter_id |-> GetId(tables.location_lookup, record.exporter),
     origin_id |-> GetId(tables.location_lookup, record.origin),
     purpose_id |-> GetId(tables.categorical["purpose"], record.purpose),
     source_id |-> GetId(tables.categorical["source"], record.source),
     reporter_type_id |-> GetId(tables.categorical["reporter_type"], record.reporter_type),
     source_file |-> record.source_file, row_number |-> record.row_number]

\* extract_lookup_tables: the lookup tables it returns (location_lookup is a
\* local of it) and the normalized records
extract_lookup_tables(trade_records, seed) ==
    LET tables == lookup_tables_of(trade_records, seed)
    IN  [lookup_tables |->
             [taxonomic |-> tables.taxonomic, locations |-> tables.locations,
              categorical |-> tables.categorical,
              categorical_reverse |-> tables.categorical_reverse],
         normalized_records |->
             [k \in 1..Len(trade_records) |-> normalized(trade_records[k], tables)]]

\* mapping.get(key, 'Unknown') for a mapping to strings
GetName(mapping, key) == IF key \in DOMAIN mapping THEN mapping[key] ELSE "Unknown"

\* create_optimized_summary, of a non-empty list of normalized records and
\* the lookup tables in memory
create_optimized_summary(trade_records, lookup_tables, seed) ==
    LET IsYear(y) == y # NullYear
        IsId(n) == n # NoNumber
        years == SelectSeq(Column(trade_records, "year"), IsYear)
        location_reverse == lookup_tables.locations
        importer_ids == Range(SelectSeq(Column(trade_records, "importer_id"), IsId))
        exporter_ids == Range(SelectSeq(Column(trade_records, "exporter_id"), IsId))
        categorical_reverse == lookup_tables.categorical_reverse
        term_counts == CountItems(SelectSeq(Column(trade_records, "term_id"), IsId))
        unit_reverse == categorical_reverse["unit"]
        \* if qty is not None and unit_id is not None
        Counted(r) == r.quantity_normalized # NoNumber /\ r.unit_id # NoNumber
        measured == SelectSeq(trade_records, Counted)
        unit_name(r) == GetName(unit_reverse, IntKey(r.unit_id))
        units == {unit_name(measured[k]) : k \in 1..Len(measured)}
        common == MostCommon(term_counts)
    IN  [total_records |-> Len(trade_records),
         years |-> [range |-> YearRange(years),
                    unique_years |-> SortedNumbers(Range(years), seed),
                    total_years |-> Cardinality(Range(years))],
         countries |->
             [importing_countries |->
                  SortedStrings({location_reverse[IntKey(n)] : n \in importer_ids}, seed),
              exporting_countries |->
                  SortedStrings({location_reverse[IntKey(n)] : n \in exporter_ids}, seed),
              total_importing |-> Cardinality(importer_ids),
              total_exporting |-> Cardinality(exporter_ids)],
         terms |->
             [unique_terms |-> Len(term_counts),
              top_terms |->
                  [k \in 1..Len(common) |->
                     [term |-> GetName(categorical_reverse["term"], IntKey(common[k][1])),
                      count |-> common[k][2]]]],
         quantities |->
             [u \in units |->
                LET OfUnit(r) == unit_name(r) = u
                IN  QuantityStats(Column(SelectSeq(measured, OfUnit),
                                         "quantity_normalized"))]]

\* json.dump followed by json.load, of a dict with integer keys: the keys
\* come back as strings
json_keys(mapping) ==
    [key \in {StrKey(k[2]) : k \in DOMAIN mapping} |-> mapping[IntKey(key[2])]]

\* json.dump followed by json.load, of the lookup tables: the keys of
\* categorical are strings already
json_lookup_tables(lookup_tables) ==
    [taxonomic |-> json_keys(lookup_tables.taxonomic),
     locations |-> json_keys(lookup_tables.locations),
     categorical |-> lookup_tables.categorical,
     categorical_reverse |->
         [field \in DOMAIN lookup_tables.categorical_reverse |->
            json_keys(lookup_tables.categorical_reverse[field])]]

\* optimize_species_file: the <species>_trade_data_optimized.json it writes
\* of a species file, as json.load reads it back (the .json.gz is the same
\* document); the records and the summary hold strings, numbers and lists
\* under string keys, which json leaves as they are
optimize_species_file(original_data, seed) ==
    LET extracted == extract_lookup_tables(original_data.trade_records, seed)
    IN  [format_version |-> "2.0_optimized",
         species |-> original_data.species,
         lookup_tables |-> json_lookup_tables(extracted.lookup_tables),
         summary |-> create_optimized_summary(extracted.normalized_records,
                                              extracted.lookup_tables, seed),
         trade_records |-> extracted.normalized_records,
         metadata |-> [original_records |-> Len(original_data.trade_records),
                       optimized_records |-> Len(extracted.normalized_records)]]

\* the part of full_record both readers fill from the record itself
full_record(record) ==
    [id |-> record.id, year |-> record.year, quantity_raw |-> record.quantity_raw,
     quantity_normalized |-> record.quantity_normalized,
     source_file |-> record.source_file, row_number |-> record.row_number]

\* f"{field}_id"
IdField ==
    [field \in Range(location_fields) \cup Range(categorical_fields) |->
       CASE field = "importer" -> "importer_id"
         [] field = "exporter" -> "exporter_id"
         [] field = "origin" -> "origin_id"
         [] field = "term" -> "term_id"
         [] field = "purpose" -> "purpose_id"
         [] field = "source" -> "source_id"
         [] field = "reporter_type" -> "reporter_type_id"
         [] field = "unit" -> "unit_id"]

\* the loop body of get_denormalized_records, which the two readers share
\* but for the key they look an id up with: the reader of the full reload
\* asks for str(id), optimized_reader.py for the id itself
denormalize(record, lookup_tables, as_text) ==
    LET Key(n) == IF as_text THEN StrKey(n) ELSE IntKey(n)
        taxonomic_lookup == lookup_tables.taxonomic
        location_lookup == lookup_tables.locations
        categorical_lookup == lookup_tables.categorical_reverse
        taxonomic_id == record.taxonomic_id
        with_taxonomic ==
            IF taxonomic_id # NoNumber /\ Key(taxonomic_id) \in DOMAIN taxonomic_lookup
            THEN taxonomic_lookup[Key(taxonomic_id)] @@ full_record(record)
            ELSE full_record(record)
        locations ==
            [field \in Range(location_fields) |->
               LET location_id == record[IdField[field]]
               IN  IF location_id # NoNumber /\ Key(location_id) \in DOMAIN location_lookup
                   THEN location_lookup[Key(location_id)] ELSE ""]
        categorical ==
            [field \in DOMAIN categorical_lookup |->
               LET value_id == record[IdField[field]]
               IN  IF value_id # NoNumber
                      /\ Key(value_id) \in DOMAIN categorical_lookup[field]
                   THEN categorical_lookup[field][Key(value_id)] ELSE ""]
    IN  categorical @@ locations @@ with_taxonomic

\* optimized_reader.py, the reader the optimizer writes next to its files:
\* it looks the integer id itself up (taxonomic_id in taxonomic_lookup)
optimized_reader_get_denormalized_records(data) ==
    [k \in 1..Len(data.trade_records) |->
       denormalize(data.trade_records[k], data.lookup_tables, FALSE)]

\* the reader of load_optimized_trade_data.py: it looks str(id) up
\* (str(taxonomic_id) in taxonomic_lookup)
loader_get_denormalized_records(data) ==
    [k \in 1..Len(data.trade_records) |->
       denormalize(data.trade_records[k], data.lookup_tables, TRUE)]

NotRead == [reader |-> "none"]

NoFirstRun == [run |-> FALSE]

\* the operator runs optimize_species_trade_json.py: optimize_all_files on
\* every *_trade_data.json of the input directory, in one Python process and
\* so under one hash seed
optimize_all_files ==
    /\ script = "none"
    /\ opt_runs < MaxOptRuns
    /\ opt_runs' = opt_runs + 1
    /\ \E seed \in HashSeed :
         optimized_species' =
             [s \in DOMAIN individual_species |->
                optimize_species_file(individual_species[s], seed)] @@ optimized_species
    /\ first_run' = IF opt_runs = 0
                    THEN [run |-> TRUE, input_dir |-> individual_species,
                          output_dir |-> optimized_species']
                    ELSE first_run
    /\ UNCHANGED <<script, pc, extractVars, denormalized>>
    /\ ToolFrame

\* a program reads a file of the optimized directory with optimized_reader.py
optimized_reader ==
    /\ script = "none"
    /\ \E s \in DOMAIN optimized_species :
         denormalized' =
             [reader |-> "optimized_reader", species |-> s,
              records |-> optimized_reader_get_denormalized_records(optimized_species[s])]
    /\ UNCHANGED <<script, pc, extractVars, optimized_species, first_run, opt_runs>>
    /\ ToolFrame

\* the full reload reads a file of the optimized directory with its own reader
loader_reader ==
    /\ script = "none"
    /\ \E s \in DOMAIN optimized_species :
         denormalized' =
             [reader |-> "load_optimized_trade_data", species |-> s,
              records |-> loader_get_denormalized_records(optimized_species[s])]
    /\ UNCHANGED <<script, pc, extractVars, optimized_species, first_run, opt_runs>>
    /\ ToolFrame
(***************************************************************************)
(* The system.                                                             *)
(***************************************************************************)
\* production before the first run: at most one row per natural key
InitialProduction == {<<>>, CleanBatch(<<rowA>>), CleanBatch(<<rowA, rowB>>)}

\* the state before any script has run, with staging drawn from `tables`,
\* the extracted CSV from `inputs` and production from `productions`
InitPipeline(tables, inputs, productions) ==
    /\ staging \in tables
    /\ csv \in inputs
    /\ production \in productions
    /\ uniqueConstraint \in BOOLEAN
    /\ script = "none"
    /\ pc = "idle"
    /\ dry_run = FALSE
    /\ migration_stats = InitStats
    /\ staging_records = <<>>
    /\ i = 0 /\ inserted = 0 /\ errors = 0
    /\ lastError = "none"
    /\ faults = 0
    /\ exit_code = None
    /\ runs = 0
    /\ prodBefore = <<>>
    /\ prevRun = NoRun
    /\ validation_results = NoResults
    /\ all_passed = TRUE
    /\ sv_results = InitResults
    /\ gate_exit = None
    /\ gate_staging = <<>>
    /\ gate_report = NoReport
    /\ df = <<>>
    /\ load_stats = InitLoadStats
    /\ successful_inserts = 0 /\ failed_inserts = 0
    /\ load_report = NoLoadReport
    /\ loadedFrom = [k \in 1..Len(staging) |-> 0]
    /\ current_count = 0 /\ loaded = 0
    /\ load_exit = None
    /\ loads = 0
    /\ backup = FALSE
    /\ backup_file = NoBackup
    /\ stats = InitLoadStatsReload
    /\ file = 0
    /\ reload_exit = None

\* the tools before any of them has run, with the trade directory drawn
\* from `dirs` and the output directories empty
InitTools(dirs) ==
    /\ trade_dir \in dirs
    /\ species_data = <<>>
    /\ extract_stats = InitExtractStats
    /\ individual_species = <<>>
    /\ extraction_summary_report = NoSummaryReport
    /\ extracted_data = <<>>
    /\ arctic_results = <<>>
    /\ arctic_stats = InitArcticStats
    /\ combined = <<>>
    /\ next_file = 0
    /\ extract_exit = None
    /\ extractions = 0
    /\ optimized_species = <<>>
    /\ denormalized = NotRead
    /\ first_run = NoFirstRun
    /\ opt_runs = 0

\* the state before any script has run, with staging drawn from `tables`,
\* the extracted CSV from `inputs`, production from `productions` and no
\* source file in the trade directory
InitOf(tables, inputs, productions) ==
    /\ InitPipeline(tables, inputs, productions)
    /\ InitTools({<<>>})

\* the state before any script has run, with no extracted CSV
InitWith(tables) == InitOf(tables, {<<>>}, InitialProduction)

\* the merge script
NextMerge ==
    \/ main_start
    \/ pre_migration_checks
    \/ main_confirm
    \/ execute_migration_fetch
    \/ execute_migration_insert
    \/ execute_migration_return
    \/ post_migration_validation

\* the two gate scripts
NextGate ==
    \/ validate_all_start
    \/ validate_record_count
    \/ validate_species_mapping
    \/ validate_data_integrity
    \/ validate_field_values
    \/ validate_relationships
    \/ validate_performance
    \/ validate_all_return
    \/ run_all_validations_start
    \/ check_record_count
    \/ check_data_quality
    \/ check_species_mapping
    \/ check_data_completeness
    \/ compare_with_production
    \/ generate_validation_report
    \/ run_all_validations_return

\* the two loader scripts
NextLoad ==
    \/ load_to_staging_main
    \/ load_species_mapping
    \/ load_extracted_data
    \/ map_species_ids
    \/ prepare_staging_records
    \/ clear_staging_table
    \/ load_to_staging
    \/ load_to_staging_insert
    \/ load_to_staging_return
    \/ load_to_staging_interrupted
    \/ validate_staging_load
    \/ generate_load_report
    \/ resume_main
    \/ get_loaded_record_ids
    \/ resume_prepare
    \/ resume_insert
    \/ resume_return

\* the full reload
NextReload ==
    \/ reload_main
    \/ backup_existing_data
    \/ clear_existing_data
    \/ load_all_data
    \/ load_species_file
    \/ reload_return

\* the pipeline: gate and merge scripts in any order, on a staging table of
\* rows that pass the gate and rows that do not
PipelineRows == {rowA, rowZ}

Init == InitWith(SeqsUpTo(PipelineRows, MaxStaging))

Next == NextGate \/ NextMerge

Spec == Init /\ [][Next]_vars

\* every staging table of at most MaxStaging rows
InitAll == InitWith(SeqsUpTo(RowUniverse, MaxStaging))

\* the merge script alone
SpecMerge == InitAll /\ [][NextMerge]_vars

\* the gate scripts alone
SpecGate == InitAll /\ [][NextGate]_vars

\* a row without species_id and a row of a species the registry does not have
rowN == Row(NULL, 2023, "I", "Ursus maritimus", "US", "CA", "skins", "T", "W", 1)
rowU == Row("sp9", 2024, "II", "Monodon monoceros", "DK", "GL", "tusks", "P", "C", 1)

ForeignKeyRows == {rowA, rowN, rowU}

\* the gate scripts on staging tables with broken species references
SpecGateFK == InitWith(SeqsUpTo(ForeignKeyRows, MaxStaging)) /\ [][NextGate]_vars

\* the gate scripts, which never wait: a started script takes its next step
SpecGateLive ==
    /\ InitWith(SeqsUpTo(PipelineRows, MaxStaging))
    /\ [][NextGate]_vars
    /\ WF_vars(NextGate)

\* staging as an earlier run left it
EarlierStaging == {<<>>, <<rowB>>}

\* the loader scripts, on every extracted CSV of at most MaxInput rows
SpecLoad ==
    /\ InitOf(EarlierStaging, SeqsUpTo(CsvUniverse, MaxInput), {CleanBatch(<<rowA, rowB>>)})
    /\ [][NextLoad]_vars

\* a production table of ManyRows rows with distinct natural keys, on which
\* one row is less than a tenth
LargeProduction ==
    CleanBatch([k \in 1..ManyRows |->
                  Row("sp1", 2000 + k, "I", "Ursus maritimus", "US", "CA", "skins", "T", "W", 1)])

\* the full reload alone
SpecReload ==
    /\ InitOf(EarlierStaging, {<<>>}, InitialProduction \cup {LargeProduction})
    /\ [][NextReload]_vars

\* the three mutating commands in any order
NextCommands == NextLoad \/ NextMerge \/ NextReload

SpecCommands ==
    /\ InitOf({<<rowB>>}, {<<csvA, csvU, csvA, csvA>>}, {CleanBatch(<<rowA>>)})
    /\ [][NextCommands]_vars

\* the source file number k of the trade directory
TradeFile(k, rows) == [name |-> <<"trade_db_", k, ".csv">>, rows |-> rows]

\* the trade directories of at most n files with contents from `contents`
TradeDirs(contents, n) ==
    {[k \in 1..Len(c) |-> TradeFile(k, c[k])] : c \in SeqsUpTo(contents, n)}

\* the state before any tool has run, with the trade directory drawn from
\* `dirs` and the pipeline tables, which the tools do not reach, empty
InitToolsOn(dirs) ==
    /\ InitPipeline({<<>>}, {<<>>}, {<<>>})
    /\ uniqueConstraint
    /\ InitTools(dirs)

\* the core extractor
NextCoreExtract ==
    \/ extract_main
    \/ process_trade_file
    \/ generate_species_json_files

\* the extractor of the 2025 migration
NextArcticExtract ==
    \/ arctic_main
    \/ process_single_file
    \/ aggregate
    \/ _print_summary

\* the two extractors
NextExtract == NextCoreExtract \/ NextArcticExtract

\* a source file with one row outside the species lists and five polar bear rows
FiveMatches ==
    <<srcX>> \o [k \in 1..5 |-> [srcA EXCEPT !.Id = <<"11", "12", "13", "14", "15">>[k]]]

\* the contents of the source files of the extractors: no row, no matching
\* row, rows of two species, five rows of one species
ExtractContents == {<<>>, <<srcX>>, <<srcX, srcA, srcM>>, FiveMatches}

\* the two extractors, on every trade directory of at most MaxFiles files
SpecExtract ==
    /\ InitToolsOn(TradeDirs(ExtractContents, MaxFiles))
    /\ [][NextExtract]_vars

\* the core extractor, the optimizer and the readers of its files
NextOptimize ==
    \/ NextCoreExtract
    \/ optimize_all_files
    \/ optimized_reader
    \/ loader_reader

\* the rows of the source file the optimizer's input is extracted from
OptimizerRows == {srcA, srcB, srcC, srcD}

\* extraction, optimization and reading, on a trade directory of at most one
\* file of at most MaxRecords rows
SpecOptimize ==
    /\ InitToolsOn(TradeDirs(SeqsUpTo(OptimizerRows, MaxRecords), 1))
    /\ [][NextOptimize]_vars

(***************************************************************************)
(* Properties of the merge.                                                *)
(***************************************************************************)
\* execute_migration has returned True in a run that is not a dry run
MergeReturned == script = "migrate" /\ pc = "post" /\ ~dry_run

\* the rows this run has appended to production
Added == SubSeq(production, Len(prodBefore) + 1, Len(production))

\* the insert loop is taking the step that sends the batch at offset i
InsertStep == script = "migrate" /\ pc = "inserting" /\ i' = i + InsertBatchSize

\* the positions in staging_records of the batch at offset i
BatchRows == (i + 1)..Min(i + InsertBatchSize, Len(staging_records))

\* C1: when execute_migration has returned from a second run on the staging
\* snapshot of the previous run, with production as that run left it, this
\* second run has added no row to production.
C1_SecondRunAddsNothing ==
    (/\ MergeReturned
     /\ faults = 0
     /\ prevRun.returned /\ ~prevRun.dry_run
     /\ prevRun.staging = staging_records
     /\ prevRun.after = prodBefore)
    => Len(production) = Len(prodBefore)

\* C2: no two rows of production share the composite natural key, in every
\* reachable state, whatever staging holds and whether or not the store has
\* a unique constraint.
C2_ProductionKeysUnique == UniqueKeys(production)

\* C3: when execute_migration has returned True (and no insert call failed
\* for a reason other than a duplicate), production is what it was before
\* the run followed by exactly the staging rows whose natural key was
\* absent: the old rows are unchanged, the key of every staging row is
\* present, and the keys added are the staging keys that were absent.
C3_InsertsExactlyAbsentKeys ==
    (MergeReturned /\ faults = 0) =>
        /\ Len(production) >= Len(prodBefore)
        /\ SubSeq(production, 1, Len(prodBefore)) = prodBefore
        /\ Keys(staging_records) \subseteq Keys(production)
        /\ Keys(Added) = Keys(staging_records) \ Keys(prodBefore)
        /\ Range(Added) \subseteq Range(CleanBatch(staging_records))
        /\ UniqueKeys(Added)

\* C4: when the store rejects an insert batch as a duplicate, every row of
\* that batch that is no duplicate (its key is not in production and no
\* other row of the batch has it) is in production afterwards, and the loop
\* goes on with the next batch.
C4_DuplicateDoesNotAbortBatch ==
    [][(InsertStep /\ lastError' = "duplicate key value") =>
         /\ \A k \in BatchRows :
               (/\ NaturalKey(staging_records[k]) \notin Keys(production)
                /\ \A j \in BatchRows \ {k} :
                      NaturalKey(staging_records[j]) # NaturalKey(staging_records[k]))
                 => NaturalKey(staging_records[k]) \in Keys(production')
         /\ pc' = "inserting"]_vars

\* C5: while the latest verdict of the gate on the current staging contents
\* is failed, no step changes production.
C5_FailedGateBlocksMerge ==
    [][(gate_exit = "1" /\ gate_staging = staging) => production' = production]_vars

\* C6: an insert rejected as a duplicate is counted as skipped and the loop
\* goes on; an insert that fails for another reason is not counted with the
\* duplicates, and execute_migration does not return True in a run in which
\* one happened.
C6_OnlyDuplicatesTolerated ==
    [][/\ (InsertStep /\ lastError' = "duplicate key value")
            => errors' = errors + Cardinality(BatchRows) /\ pc' = "inserting"
       /\ (InsertStep /\ lastError' = "other") => errors' = errors
       /\ (script = "migrate" /\ pc = "inserting" /\ pc' = "post") => faults = 0]_vars

\* C7: when every staging row has a natural key already in production, the
\* merge inserts no row, reports 0 records migrated and reports as many
\* expected duplicates as staging has rows.
C7_FullOverlapInsertsNothing ==
    (/\ MergeReturned
     /\ faults = 0
     /\ staging_records # <<>>
     /\ Keys(staging_records) \subseteq Keys(prodBefore))
    => /\ production = prodBefore
       /\ migration_stats.records_migrated = 0
       /\ errors = Len(staging_records)

\* C8: after a merge that is not a dry run, production has at least the rows
\* it had, and post_migration_validation fails the run exactly when no row
\* was added although staging held a row whose key was absent from
\* production.
C8_ZeroAddedFlaggedOnlyWithNewData ==
    MergeReturned =>
        /\ Len(production) >= Len(prodBefore)
        /\ ~PostVerdict(Len(production), migration_stats.initial_production_count)
             <=> (/\ Len(production) = Len(prodBefore)
                  /\ ~(Keys(staging_records) \subseteq Keys(prodBefore)))

(***************************************************************************)
(* Properties of the gate.                                                 *)
(***************************************************************************)
\* the flags of the checks logged so far
Flags == {validation_results.checks[k].passed : k \in DOMAIN validation_results.checks}

\* position of validate_field_values among the checks of validate_all
FieldCheck == 4

\* row r has an appendix, purpose or source value outside its fixed set
OutsideDomain(r) ==
    \/ Truthy(r.appendix) /\ r.appendix \notin valid_appendix
    \/ Truthy(r.purpose) /\ r.purpose \notin valid_purposes
    \/ Truthy(r.source) /\ r.source \notin valid_sources

\* C9: the verdict of validate_all is the conjunction of the passed flags of
\* the checks logged, and the verdict of run_all_validations is true exactly
\* when no check has failed; six, respectively five, checks have run when the
\* verdict is returned; and a verdict that is false stays false for the rest
\* of the run.
C9_VerdictIsConjunction ==
    /\ [](/\ script = "validate_staging_data" =>
               /\ validation_results.passed <=> (FALSE \notin Flags)
               /\ pc = "save_validation_report" => Len(validation_results.checks) = 6
          /\ script = "validate_staging" =>
               /\ all_passed <=> (sv_results.checks_failed = 0)
               /\ pc = "return" =>
                    sv_results.checks_passed + sv_results.checks_failed = 5)
    /\ [][/\ (script = "validate_staging_data" /\ script' = script
              /\ ~validation_results.passed) => ~validation_results'.passed
          /\ (script = "validate_staging" /\ script' = script /\ ~all_passed)
               => ~all_passed'
          /\ (script = "validate_staging_data" /\ script' = "none")
               => (gate_exit' = "0" <=> validation_results.passed)
          /\ (script = "validate_staging" /\ script' = "none")
               => (gate_exit' = "0" <=> all_passed)]_vars

\* C9 witness: validate_all is about to return after a failed check that was
\* followed by a passed one.
C9_Witness ==
    /\ script = "validate_staging_data"
    /\ pc = "save_validation_report"
    /\ ~validation_results.passed
    /\ \E j, k \in DOMAIN validation_results.checks :
         /\ j < k
         /\ ~validation_results.checks[j].passed
         /\ validation_results.checks[k].passed

\* C10: once validate_field_values has run, its check is logged as failed
\* whenever some staging row, at any position, has an appendix, purpose or
\* source value outside the fixed set of that field.
C10_DomainCheckFindsEveryRow ==
    (/\ script = "validate_staging_data"
     /\ Len(validation_results.checks) >= FieldCheck
     /\ \E k \in 1..Len(staging) : OutsideDomain(staging[k]))
    => ~validation_results.checks[FieldCheck].passed
(***************************************************************************)
(* Properties of the gate checks.                                          *)
(***************************************************************************)
\* positions of validate_data_integrity and validate_relationships among the
\* checks of validate_all
IntegrityCheck == 3
ForeignKeyCheck == 5

\* row r refers to no row of the species registry
BrokenReference(r) == r.species_id = NULL \/ r.species_id \notin species

HasBrokenReference == \E k \in 1..Len(staging) : BrokenReference(staging[k])

\* C11: when staging holds a row whose species_id is null or is not the id
\* of a registry row, the foreign-key check of either gate script is logged
\* as failed, the verdict is false from then on, and the script exits 1.
C11_BrokenReferenceFailsGate ==
    [][/\ (script = "validate_staging_data" /\ pc = "validate_relationships"
           /\ HasBrokenReference)
            => /\ ~validation_results'.checks[ForeignKeyCheck].passed
               /\ ~validation_results'.passed
       /\ (script = "validate_staging" /\ pc = "check_species_mapping"
           /\ HasBrokenReference)
            => /\ sv_results'.checks_failed = sv_results.checks_failed + 1
               /\ ~all_passed'
       /\ (script \in {"validate_staging_data", "validate_staging"} /\ script' = "none"
           /\ HasBrokenReference)
            => gate_exit' = "1"]_vars

\* C12: once validate_data_integrity has run, its check is logged as failed
\* when two staging rows share the composite natural key, and it counts no
\* duplicate when no two staging rows share one.
C12_DuplicateKeysDetected ==
    (script = "validate_staging_data" /\ Len(validation_results.checks) >= IntegrityCheck)
    => /\ ~UniqueKeys(staging) => ~validation_results.checks[IntegrityCheck].passed
       /\ UniqueKeys(staging) => DuplicateRecordIds(staging) = 0

\* largest count the record-count rule is evaluated on
MaxCount == 12

\* the rule of the record-count check: it fails exactly when staging is short
\* by more than a tenth of the expected count
CountRulePasses(staging_count, expected_count) ==
    ~(staging_count < expected_count
      /\ 10 * (expected_count - staging_count) > expected_count)

\* C13: the record-count check of either gate script passes when the counts
\* are equal, passes with a warning when staging is short by at most a tenth
\* of the expected count or has excess rows, and fails only when the
\* shortfall is larger; this for the staging table at hand and every expected
\* count, and for the rule of check_record_count on every pair of counts.
C13_RecordCountTolerance ==
    /\ (script = "validate_staging_data" /\ pc = "validate_record_count")
         => \A expected_count \in 0..MaxCount :
               RecordCountMatches(Len(staging), expected_count)
                 <=> CountRulePasses(Len(staging), expected_count)
    /\ (script = "validate_staging" /\ pc = "check_record_count")
         => /\ RecordCountOutcome(Len(staging), ExpectedCount).result
                 <=> CountRulePasses(Len(staging), ExpectedCount)
            /\ \A staging_count \in 0..MaxCount, expected_count \in 1..MaxCount :
                  LET outcome == RecordCountOutcome(staging_count, expected_count)
                  IN /\ outcome.result <=> CountRulePasses(staging_count, expected_count)
                     /\ outcome.warnings = 0 <=> staging_count = expected_count

\* a gate script is running
GateRunning == script \in {"validate_staging_data", "validate_staging"}

\* C14: the step that ends a gate script leaves the report file of that run
\* on disk, listing all its checks, and the exit status 0 exactly when the
\* verdict is passed; this whatever checks failed or raised; and every
\* started gate script comes to that end.
C14_ReportAlwaysPersisted ==
    /\ [][/\ (script = "validate_staging_data" /\ script' = "none")
               => /\ gate_report'.script = "validate_staging_data"
                  /\ gate_report'.passed = validation_results.passed
                  /\ Len(gate_report'.checks) = 6
                  /\ gate_exit' = "0" <=> validation_results.passed
          /\ (script = "validate_staging" /\ script' = "none")
               => /\ gate_report'.script = "validate_staging"
                  /\ gate_report'.total_checks = 5
                  /\ gate_exit' = "0" <=> all_passed]_vars
    /\ [](script = "none" /\ gate_exit # None => gate_report.script # "none")
    /\ (GateRunning ~> (script = "none" /\ gate_report.script # "none"))

\* C14 witness: a gate script has ended with the verdict failed and its
\* report is on disk.
C14_Witness ==
    /\ script = "none"
    /\ gate_exit = "1"
    /\ gate_report.script = "validate_staging_data"
    /\ ~gate_report.passed

(***************************************************************************)
(* Properties of the staging loader.                                       *)
(***************************************************************************)
\* the taxon of an extracted row has an exact match in the registry
Resolved(row) == row.Taxon \in DOMAIN species_mapping

\* positions of the extracted rows that are not resolved
UnresolvedRows == {k \in 1..Len(csv) : ~Resolved(csv[k])}

\* the store can take the record of an extracted row
Storable(row) == row.Quantity # Inf

\* csv positions of the rows the loader scripts have put in staging
LoadedRows == Range(loadedFrom)

\* a live run of load_to_staging.py has loaded and validate_staging_load
\* has accepted the load
LoadCompleted ==
    script = "load_to_staging" /\ pc = "generate_load_report" /\ ~dry_run

\* C15: when a live load is complete, staging holds the extracted rows minus
\* the unresolved ones (and minus the rows counted as failed), every row in
\* staging is a resolved row, and the step that follows writes the load
\* report, in which total_records - species_mapped is the number of
\* unresolved rows.
C15_StagingCountConserved ==
    [][LoadCompleted =>
         /\ Len(staging) = Len(csv) - Cardinality(UnresolvedRows) - load_stats.failed_loads
         /\ LoadedRows \cap UnresolvedRows = {}
         /\ 0 \notin LoadedRows
         /\ load_report'.written
         /\ load_report'.total_records - load_report'.species_mapped
              = Cardinality(UnresolvedRows)]_vars

\* C16: when the insert loop of a live load has ended, and no insert call
\* failed for a reason outside its batch, every resolved row that the store
\* can take is in staging: a record the store rejects costs neither the
\* other rows of its batch nor a later batch.
C16_BadRecordCostsOnlyItself ==
    (/\ script = "load_to_staging" /\ pc = "validate_staging_load" /\ ~dry_run
     /\ faults = 0)
    => \A k \in 1..Len(csv) :
          (Resolved(csv[k]) /\ Storable(csv[k])) => k \in LoadedRows

\* the loader has passed clear_staging_table in a live run
PastClear ==
    /\ script = "load_to_staging" /\ ~dry_run
    /\ pc \in {"load_to_staging", "inserting", "validate_staging_load",
               "generate_load_report"}

\* C17: no step of load_to_staging.py or resume_staging_load.py changes
\* production; the clear empties staging; and from the clear of a live run
\* on, staging holds only rows this run has loaded.
C17_LoaderLeavesProduction ==
    /\ [][/\ production' = production
          /\ (script = "load_to_staging" /\ pc = "clear_staging_table"
              /\ pc' = "load_to_staging" /\ ~dry_run) => staging' = <<>>]_vars
    /\ [](PastClear => 0 \notin LoadedRows)

\* C17 witness: a live load has cleared staging and loaded rows while
\* production holds rows.
C17_Witness ==
    /\ script = "load_to_staging" /\ pc = "validate_staging_load" /\ ~dry_run
    /\ load_stats.successful_loads > 0
    /\ staging # <<>>
    /\ production # <<>>

\* the insert loop of resume_staging_load.py has ended
ResumeCompleted ==
    script = "resume_staging_load" /\ pc = "resume_inserting" /\ i >= Len(staging_records)

\* C18: when resume_staging_load.py has ended its loop after an interrupted
\* load of the same CSV (no insert call failed for a reason outside its
\* batch, and the store can take every row), every resolved row is in
\* staging and none is there twice.
C18_ResumeContinues ==
    (/\ ResumeCompleted
     /\ load_exit = "130"
     /\ faults = 0
     /\ \A k \in 1..Len(csv) : Storable(csv[k]))
    => /\ \A k \in 1..Len(csv) : Resolved(csv[k]) => k \in LoadedRows
       /\ \A a, b \in DOMAIN loadedFrom : loadedFrom[a] = loadedFrom[b] => a = b

C20_NoDeleteWithoutVerifiedBackup ==
    [][Len(production') < Len(production) =>
         /\ backup_file.written
         /\ backup_file.record_count = Len(production)
         /\ backup_file.records = production]_vars

(***************************************************************************)
(* Properties of the gate verdict.                                         *)
(***************************************************************************)
\* the name validate_performance logs its check under
PerformanceCheck == "Query Performance"

\* every check of the run other than the performance check has passed
OnlyPerformanceFailed(results) ==
    /\ \A k \in DOMAIN results.checks :
         results.checks[k].name # PerformanceCheck => results.checks[k].passed
    /\ \E k \in DOMAIN results.checks :
         results.checks[k].name = PerformanceCheck /\ ~results.checks[k].passed

\* C27: when validate_all has run all its checks and only the performance
\* check has not passed (a test query was slow), the verdict is still
\* passed.
C27_SlowQueryIsWarning ==
    (/\ script = "validate_staging_data" /\ pc = "save_validation_report"
     /\ OnlyPerformanceFailed(validation_results))
    => validation_results.passed

\* the number of entries of `checks` in run_all_validations
ChecksRun == 5

\* C28: when run_all_validations returns, the persisted overall_status is
\* 'FAILED' exactly when the returned boolean (and so the exit code) says
\* failed, and checks_passed + checks_failed is the number of checks run,
\* in the report as in the object.
C28_StatusAgreesWithReturn ==
    [][(script = "validate_staging" /\ pc = "return") =>
         /\ gate_report.script = "validate_staging"
         /\ (gate_report.overall_status = "FAILED") <=> ~all_passed
         /\ (gate_report.overall_status = "FAILED") <=> (gate_exit' = "1")
         /\ sv_results.checks_passed + sv_results.checks_failed = ChecksRun
         /\ gate_report.total_checks = ChecksRun]_vars

\* C28 witness: a run in which a check failed or raised is about to return
\* False with a report that says FAILED.
C28_Witness ==
    /\ script = "validate_staging" /\ pc = "return"
    /\ ~all_passed
    /\ sv_results.checks_failed > 0
    /\ gate_report.script = "validate_staging"
    /\ gate_report.overall_status = "FAILED"

(***************************************************************************)
(* Properties of the full reload and of the resume.                        *)
(***************************************************************************)
\* C29: in a live full reload, clear_existing_data returns True (main goes
\* on to load_all_data) only when it leaves cites_trade_records empty.
C29_ClearLeavesNothing ==
    [][(/\ script = "load_optimized_trade_data" /\ pc = "clear_existing_data"
        /\ ~dry_run
        /\ pc' = "load_all_data")
       => production' = <<>>]_vars

\* C30: after an interrupted load, the resume prepares no record for an
\* extracted row whose taxon is not in the registry, as the first load does,
\* and no row of staging has a null or missing species_id after the loaders
\* have run.
C30_ResumeExcludesUnresolved ==
    /\ (script = "resume_staging_load" /\ pc = "resume_inserting" /\ load_exit = "130")
         => \A k \in 1..Len(staging_records) : staging_records[k].species_id \in species
    /\ \A k \in 1..Len(staging) : staging[k].species_id \in species


(***************************************************************************)
(* Properties of the optimizer and its readers.                            *)
(***************************************************************************)
\* the fields the lookup tables hold
LookupFields ==
    Range(static_fields) \cup Range(location_fields) \cup Range(categorical_fields)

\* the records a reader returned give, for each extracted record, the value
\* of every lookup field
RoundTrips(read) ==
    LET original == individual_species[read.species].trade_records
    IN  /\ Len(read.records) = Len(original)
        /\ \A k \in 1..Len(original) : \A field \in LookupFields :
              /\ field \in DOMAIN read.records[k]
              /\ read.records[k][field] = original[k][field]

\* C21: whatever reader read an optimized file, the records it returns
\* carry for every extracted record the original value of the thirteen lookup
\* fields (appendix, class, order, family, genus, importer, exporter, origin,
\* term, purpose, source, reporter_type, unit).
C21_RoundTrip == denormalized.reader # "none" => RoundTrips(denormalized)

\* the species whose file was the same in the first optimizer run as now
SameInput == {s \in DOMAIN first_run.input_dir \cap DOMAIN individual_species :
                first_run.input_dir[s] = individual_species[s]}

\* C22: an optimizer run on the input an earlier run had gives every
\* taxonomic combination, location and categorical value the integer id the
\* earlier run gave it: the lookup tables of the two files are the same.
C22_StableIds ==
    first_run.run =>
        \A s \in SameInput :
            optimized_species[s].lookup_tables = first_run.output_dir[s].lookup_tables

\* a second optimizer run has rewritten a file whose tables hold two
\* locations and two taxonomic combinations
C22_Witness ==
    /\ first_run.run /\ opt_runs = MaxOptRuns
    /\ \E s \in SameInput :
         /\ Cardinality(DOMAIN optimized_species[s].lookup_tables.locations) >= 2
         /\ Cardinality(DOMAIN optimized_species[s].lookup_tables.taxonomic) >= 2

\* the quantities the two summaries both report, of the summary the
\* extractor computed of the raw records
RawShared(summary) ==
    [total_records |-> summary.total_records,
     year_range |-> summary.year_range,
     years |-> summary.years_with_data,
     importing_countries |-> summary.importing_countries,
     exporting_countries |-> summary.exporting_countries,
     top_terms |-> summary.top_terms,
     quantities |->
         [u \in DOMAIN summary.quantity_summary |->
            [total |-> summary.quantity_summary[u].total,
             count |-> summary.quantity_summary[u].count,
             min |-> summary.quantity_summary[u].min,
             max |-> summary.quantity_summary[u].max]]]

\* the same quantities of the summary the optimizer computed of the
\* normalized records
OptimizedShared(summary) ==
    [total_records |-> summary.total_records,
     year_range |-> summary.years.range,
     years |-> summary.years.unique_years,
     importing_countries |-> summary.countries.importing_countries,
     exporting_countries |-> summary.countries.exporting_countries,
     top_terms |->
         [k \in 1..Len(summary.terms.top_terms) |->
            <<summary.terms.top_terms[k].term, summary.terms.top_terms[k].count>>],
     quantities |->
         [u \in DOMAIN summary.quantities |->
            [total |-> summary.quantities[u].total,
             count |-> summary.quantities[u].count,
             min |-> summary.quantities[u].min,
             max |-> summary.quantities[u].max]]]

\* C23: the summary in an optimized file equals the summary in the species
\* file it was made of, on total record count, year range and years with
\* data, importing and exporting countries, top terms with counts and the
\* total, count, min and max of the quantities of each unit.
C23_SummariesAgree ==
    \A s \in DOMAIN optimized_species \cap DOMAIN individual_species :
        OptimizedShared(optimized_species[s].summary)
            = RawShared(individual_species[s].summary)

(***************************************************************************)
(* Properties of the extractors.                                           *)
(***************************************************************************)
\* the places <<file number, row number>> of the source rows whose taxon is
\* in `entities`
Matching(entities) ==
    {place \in (1..Len(trade_dir)) \X (1..MaxFileRows) :
        /\ place[2] <= Len(trade_dir[place[1]].rows)
        /\ trade_dir[place[1]].rows[place[2]].Taxon \in entities}

\* the source row at a place
RowAt(place) == trade_dir[place[1]].rows[place[2]]

\* the records of the species files, each with its species
CoreOutput ==
    UNION {{<<s, individual_species[s].trade_records[k]>> :
              k \in 1..Len(individual_species[s].trade_records)} :
           s \in DOMAIN individual_species}

\* the species files hold one record for each matching source row and no
\* other, each under the taxon of its row and tagged with the name of the
\* file and the number of the row it came from
CoreOutputExact ==
    /\ \A place \in Matching(species_set) :
          \E out \in CoreOutput :
              /\ out[1] = RowAt(place).Taxon
              /\ out[2].id = RowAt(place).Id
              /\ out[2].source_file = trade_dir[place[1]].name
              /\ out[2].row_number = place[2]
    /\ \A out \in CoreOutput :
          \E place \in Matching(species_set) :
              /\ out[1] = RowAt(place).Taxon
              /\ out[2].id = RowAt(place).Id
              /\ out[2].source_file = trade_dir[place[1]].name
              /\ out[2].row_number = place[2]
    /\ \A s \in DOMAIN individual_species :
          Len(individual_species[s].trade_records)
              = Cardinality({place \in Matching({s}) : TRUE})

\* the rows of the combined file are the matching source rows: as many of
\* each Id and Taxon as the source files hold
ArcticOutputExact ==
    /\ Len(combined) = Cardinality(Matching(DOMAIN arctic_species))
    /\ \A place \in Matching(DOMAIN arctic_species) :
          Cardinality({k \in 1..Len(combined) :
                         /\ combined[k].Id = RowAt(place).Id
                         /\ combined[k].Taxon = RowAt(place).Taxon})
            = Cardinality({other \in Matching(DOMAIN arctic_species) :
                             /\ RowAt(other).Id = RowAt(place).Id
                             /\ RowAt(other).Taxon = RowAt(place).Taxon})

\* every row of the combined file names the source file it came from
ArcticOutputTagged ==
    \A k \in 1..Len(combined) :
        /\ "source_file" \in DOMAIN combined[k]
        /\ \E place \in Matching(DOMAIN arctic_species) :
              /\ combined[k].source_file = trade_dir[place[1]].name
              /\ combined[k].Id = RowAt(place).Id

\* the arctic extractor has read every file without an error and combined
\* its output
ArcticDone ==
    /\ script = "extract_arctic_trade_data" /\ pc = "_print_summary"
    /\ \A k \in 1..Len(arctic_results) : arctic_results[k].error = "none"

\* C24: the output of a finished extraction holds exactly the source rows
\* whose taxon is in the species list of the extractor, no other row and
\* every such row, and each output row is tagged with the source file it
\* came from.
C24_ExactTaggedOutput ==
    /\ extraction_summary_report.written => CoreOutputExact
    /\ ArcticDone => ArcticOutputExact /\ ArcticOutputTagged

\* the rows of the combined file of one species
OutputOf(name) == {k \in 1..Len(combined) : combined[k].Taxon = name}

\* the sum of the values of a dict of counts
RECURSIVE DictSum(_)
DictSum(counts) ==
    IF DOMAIN counts = {} THEN 0
    ELSE LET key == CHOOSE x \in DOMAIN counts : TRUE
         IN  counts[key] + DictSum([x \in DOMAIN counts \ {key} |-> counts[x]])

\* C25: when the arctic extractor has gone through its files, its counters
\* are exact: total_records_scanned is the number of source rows,
\* arctic_records_found the number of rows output, and the match count of
\* each species the number of output rows of that species, so that the
\* counts of the species add up to arctic_records_found.
C25_CountersExact ==
    ArcticDone =>
        /\ arctic_stats.total_records_scanned
              = SeqSum([k \in 1..Len(trade_dir) |-> Len(trade_dir[k].rows)])
        /\ arctic_stats.arctic_records_found = Len(combined)
        /\ \A name \in DOMAIN arctic_stats.species_match_counts :
              arctic_stats.species_match_counts[name] = Cardinality(OutputOf(name))
        /\ DictSum(arctic_stats.species_match_counts) = arctic_stats.arctic_records_found

\* the run of an extractor goes on with the file after the one it is at
GoesOn == script' = script /\ next_file' = next_file + 1

\* the combined file the step writes holds the matching rows of every file
\* that was read without an error
ReadFilesAreOutput ==
    \A place \in Matching(DOMAIN arctic_species) :
        arctic_results[place[1]].error = "none" =>
            \E k \in 1..Len(combined') :
                /\ combined'[k].Id = RowAt(place).Id
                /\ combined'[k].Taxon = RowAt(place).Taxon

\* C26: whatever happens to one source file, a failure to open or read it
\* included, ends the work on that file only: the extractor goes on with
\* the next file, the arctic extractor reports the file in its results, and
\* the rows of the files that were read are output.
C26_FileFailureIsLocal ==
    [][/\ (script = "extract_species_trade_data" /\ pc = "process_trade_file")
            => GoesOn
       /\ (script = "extract_arctic_trade_data" /\ pc = "process_single_file")
            => GoesOn /\ Len(arctic_results') = next_file
       /\ (script = "extract_arctic_trade_data" /\ pc = "aggregate")
            => ReadFilesAreOutput]_vars

====
